---- MODULE Spec2Model ----
(***************************************************************************)
(* Model of the vulkandemo GPU resource lifecycle and frame subsystem:     *)
(*   - the shared_ptr wrapper chain of src/src/types.cpp (SpecOwn),        *)
(*   - the acquire/record/submit/present frame of src/src/draw.cpp         *)
(*     (SpecRender),                                                       *)
(*   - device selection of src/src/setup.cpp (SpecSelect),                 *)
(*   - the presentable chain and the debug messenger (SpecChain),          *)
(*   - the name filters (SpecFilter), the logical device (SpecDevice),     *)
(*   - the surface formats (SpecFormats), the debug messenger callback     *)
(*     (SpecCallback) and the present mode (SpecPresent) of setup.cpp.     *)
(***************************************************************************)
EXTENDS Integers, Sequences, FiniteSets, TLC

VARIABLES
    \* ---- wrapper chain (types.cpp) ----
    program,       \* the set-up sequence the caller runs (one of the test cases)
    setup_pc,      \* number of set-up steps of the caller already executed
    blocks,        \* shared_ptr control blocks: id -> [handle, caps, rc, guarded]
    held,          \* id -> number of handle variables of the caller that refer to the block
    emptied,       \* number of caller handle variables left empty by a move
    destroyCalls,  \* id -> number of native destroy calls issued on the native handle
    nativeDeps,    \* native object id -> native objects it was created from
    vectors,       \* kinds whose std::vector of wrappers the caller still holds
    \* ---- frame (draw.cpp) ----
    subcase,         \* the SUBCASE of "Populate command queue and present" that runs
    image_count,     \* number of swapchain images (= frame buffers = command buffers)
    pc,              \* position of the caller in the subcase
    frame,           \* number of the frame the caller is in (1, 2)
    maybe_image_idx, \* what the last acquire_next_swapchain_image returned
    image_idx,       \* image_idx, image_idx_2: the index each frame took with value()
    pending,         \* work handed to the queue and not known to have completed
    semaphores,      \* state of image_available_semaphore and rendering_finished_semaphore
    ops,             \* the native frame calls issued so far, in order
    failure,         \* what ended the subcase early ("" while none did)
    \* ---- device selection (setup.cpp) ----
    physical_devices,             \* the enumerated devices, in enumeration order
    required_device_extensions,   \* set of extension names
    required_queue_capabilities,  \* VkQueueFlagBits mask, as the set of its bits
    required_memory_type,         \* VkMemoryPropertyFlags mask, as the set of its bits
    required_surface_support,     \* the surface wrapper: "valid" or "null"
    surface_support_result,       \* what vkGetPhysicalDeviceSurfaceSupportKHR hands back
    selected,                     \* what select_physical_device returned or threw
    \* ---- presentable chain (setup.cpp, draw.cpp "Populate render pass") ----
    chain_test,            \* the test case that runs
    chain_pc,              \* the statement of the test case that runs next
    surface_capabilities,  \* the last VkSurfaceCapabilitiesKHR the driver reported
    native_calls,          \* the vkCreateSwapchainKHR calls and the failed native calls, in order
    created,               \* native object -> what it was created with
    locals,                \* the local variables of the test case in order of declaration,
                           \* each with the wrappers it holds
    returned,              \* the temporary a call returned, before it is assigned
    chain_failure,         \* the message of the exception that ended the test case
    \* ---- name filters (setup.cpp) ----
    filter_fn,        \* the filter function that is called
    desired_names,    \* the std::set of desired names passed to it
    enumerated,       \* the names the driver enumerates, in the order it reports them
    enumerate_result, \* the VkResult of the vkEnumerate* calls
    filter_pc,        \* "call", "returned", "read" or "thrown"
    filter_result,    \* the vector returned: each element with the storage its characters are in
    names_read,       \* the names the caller reads from the vector returned
    filter_failure,   \* the message of the exception thrown
    \* ---- logical device (setup.cpp) ----
    queue_family_and_counts,  \* the request: a sequence of <<family, count>>
    device_pc,                \* "call", "returned" or "thrown"
    queues,                   \* the map returned: family -> sequence of queues
    device_failure,           \* the message of the exception thrown
    \* ---- surface formats (setup.cpp) ----
    desired_formats,            \* the span of desired VkFormat values, in priority order
    available_surface_formats,  \* the surface formats the driver reports, in its order
    formats_results,            \* the VkResult of the count query and of the data query
    formats_pc,                 \* "call", "returned" or "thrown"
    filtered_surface_formats,   \* the vector returned
    formats_failure,            \* the message of the exception thrown
    \* ---- debug messenger callback (setup.cpp) ----
    logger_level,      \* the level of the logger behind user_data
    message_severity,  \* the severity bit the driver passes
    message_types,     \* the message type bits the driver passes
    callback_pc,       \* "call" or "returned"
    logged,            \* what the logger emitted: a sequence of [level, types]
    callback_return,   \* the VkBool32 returned
    \* ---- present mode (setup.cpp) ----
    present_modes,     \* the vector of VkPresentModeKHR the driver reports
    present_pc,        \* "choose" or "chosen"
    presentMode        \* .presentMode of the VkSwapchainCreateInfoKHR

ownVars == <<program, setup_pc, blocks, held, emptied, destroyCalls, nativeDeps, vectors>>

frameVars ==
    <<subcase, image_count, pc, frame, maybe_image_idx, image_idx, pending, semaphores, ops,
      failure>>

selectVars ==
    <<physical_devices, required_device_extensions, required_queue_capabilities,
      required_memory_type, required_surface_support, surface_support_result, selected>>

chainVars ==
    <<chain_test, chain_pc, surface_capabilities, native_calls, created, locals, returned,
      chain_failure>>

filterVars ==
    <<filter_fn, desired_names, enumerated, enumerate_result, filter_pc, filter_result, names_read,
      filter_failure>>

deviceVars == <<queue_family_and_counts, device_pc, queues, device_failure>>

formatsVars ==
    <<desired_formats, available_surface_formats, formats_results, formats_pc,
      filtered_surface_formats, formats_failure>>

callbackVars ==
    <<logger_level, message_severity, message_types, callback_pc, logged, callback_return>>

presentVars == <<present_modes, present_pc, presentMode>>

vars ==
    <<ownVars, frameVars, selectVars, chainVars, filterVars, deviceVars, formatsVars,
      callbackVars, presentVars>>

\* What the actions of one part of the model leave alone.
notOwnVars ==
    <<frameVars, selectVars, chainVars, filterVars, deviceVars, formatsVars, callbackVars,
      presentVars>>
notFrameVars ==
    <<ownVars, selectVars, chainVars, filterVars, deviceVars, formatsVars, callbackVars,
      presentVars>>
notSelectVars ==
    <<ownVars, frameVars, chainVars, filterVars, deviceVars, formatsVars, callbackVars,
      presentVars>>
notChainVars ==
    <<frameVars, selectVars, filterVars, deviceVars, formatsVars, callbackVars, presentVars,
      program, setup_pc, emptied, vectors>>
notFilterVars ==
    <<ownVars, frameVars, selectVars, chainVars, deviceVars, formatsVars, callbackVars,
      presentVars>>
notDeviceVars ==
    <<ownVars, frameVars, selectVars, chainVars, filterVars, formatsVars, callbackVars,
      presentVars>>
notFormatsVars ==
    <<ownVars, frameVars, selectVars, chainVars, filterVars, deviceVars, callbackVars,
      presentVars>>
notCallbackVars ==
    <<ownVars, frameVars, selectVars, chainVars, filterVars, deviceVars, formatsVars,
      presentVars>>
notPresentVars ==
    <<ownVars, frameVars, selectVars, chainVars, filterVars, deviceVars, formatsVars,
      callbackVars>>

\* acquire_next_swapchain_image has not been called.
NotAcquired == [kind |-> "not called", idx |-> -1]

\* select_physical_device has not been called.
NotSelected == [kind |-> "not called", device |-> 0, family |-> -1, what |-> ""]

\* The values of the variables of a part of the model that does not run.
NoOwn ==
    /\ program = <<>>
    /\ setup_pc = 0
    /\ blocks = <<>>
    /\ held = <<>>
    /\ emptied = 0
    /\ destroyCalls = <<>>
    /\ nativeDeps = <<>>
    /\ vectors = {}
NoSelect ==
    /\ physical_devices = <<>>
    /\ required_device_extensions = {}
    /\ required_queue_capabilities = {}
    /\ required_memory_type = {}
    /\ required_surface_support = "null"
    /\ surface_support_result = "VK_SUCCESS"
    /\ selected = NotSelected
NoChain ==
    /\ chain_test = "none"
    /\ chain_pc = "none"
    /\ surface_capabilities = <<>>
    /\ native_calls = <<>>
    /\ created = <<>>
    /\ locals = <<>>
    /\ returned = <<>>
    /\ chain_failure = ""
NoFilter ==
    /\ filter_fn = "none"
    /\ desired_names = {}
    /\ enumerated = <<>>
    /\ enumerate_result = "VK_SUCCESS"
    /\ filter_pc = "none"
    /\ filter_result = <<>>
    /\ names_read = <<>>
    /\ filter_failure = ""
NoDevice ==
    /\ queue_family_and_counts = <<>>
    /\ device_pc = "none"
    /\ queues = <<>>
    /\ device_failure = ""
NoFormats ==
    /\ desired_formats = <<>>
    /\ available_surface_formats = <<>>
    /\ formats_results = <<>>
    /\ formats_pc = "none"
    /\ filtered_surface_formats = <<>>
    /\ formats_failure = ""
NoCallback ==
    /\ logger_level = "off"
    /\ message_severity = 0
    /\ message_types = {}
    /\ callback_pc = "none"
    /\ logged = <<>>
    /\ callback_return = 0
NoPresent ==
    /\ present_modes = <<>>
    /\ present_pc = "none"
    /\ presentMode = "none"
NoFrame ==
    /\ subcase = "none"
    /\ image_count = 0
    /\ pc = "none"
    /\ frame = 0
    /\ maybe_image_idx = NotAcquired
    /\ image_idx = <<>>
    /\ pending = {}
    /\ semaphores = <<>>
    /\ ops = <<>>
    /\ failure = ""

----------------------------------------------------------------------------
(* Bounds of the model *)

\* Largest number of images the driver gives a swapchain.
MaxImages == 1
\* Largest number of extra handle variables of the caller at one time: copies
\* of a handle, moved-from handles, wrappers of a null handle.
MaxExtra == 1

----------------------------------------------------------------------------
(* Generic helpers *)

Range(s) == {s[i] : i \in DOMAIN s}

Reverse(s) == [i \in 1..Len(s) |-> s[Len(s) + 1 - i]]

Obj(kind, i) == <<kind, i>>

KindOf(o) == o[1]

----------------------------------------------------------------------------
(* types.cpp: the make_*_ptr factories.  Each returns a fresh control      *)
(* block: the native handle ("valid" or "null"), the parent wrappers the   *)
(* deleter lambda captures by value (in capture order), whether the        *)
(* deleter tests the handle against nullptr, and a use count of one.       *)

ControlBlock(handle, caps, guarded) ==
    [handle |-> handle, caps |-> caps, guarded |-> guarded, rc |-> 1]

make_instance_ptr(instance) == ControlBlock(instance, <<>>, TRUE)

make_surface_ptr(instance, surface) == ControlBlock(surface, <<instance>>, TRUE)

make_device_ptr(device) == ControlBlock(device, <<>>, TRUE)

\* The deleter also holds plogger, the heap-allocated LoggerPtr, and deletes it
\* whatever the handle is.
make_debug_messenger_ptr(instance, plogger, messenger) ==
    [handle |-> messenger, caps |-> <<instance>>, guarded |-> TRUE, rc |-> 1,
     plogger |-> plogger]

make_swapchain_ptr(device, swapchain) == ControlBlock(swapchain, <<device>>, TRUE)

\* Mutant: the deleter calls vkDestroyImageView without testing the handle.
make_image_view_ptr_unguarded(device, image_view) ==
    ControlBlock(image_view, <<device>>, FALSE)

make_image_view_ptr(device, image_view) == ControlBlock(image_view, <<device>>, TRUE)

make_render_pass_ptr(device, render_pass) == ControlBlock(render_pass, <<device>>, TRUE)

make_framebuffer_ptr(device, framebuffer) == ControlBlock(framebuffer, <<device>>, TRUE)

make_command_pool_ptr(device, command_pool) ==
    ControlBlock(command_pool, <<device>>, TRUE)

\* The deleter frees the batch unconditionally: the wrapped pointer is the
\* heap-allocated vector, never null.
make_command_buffers_ptr(device, pool, command_buffers) ==
    ControlBlock(command_buffers, <<device, pool>>, FALSE)

make_semaphore_ptr(device, semaphore) == ControlBlock(semaphore, <<device>>, TRUE)

\* Mutant: the deleter holds a bare VkDevice, not a copy of the device wrapper.
make_buffer_ptr_bare_device(device, buffer) == ControlBlock(buffer, <<>>, TRUE)

make_buffer_ptr(device, buffer) == ControlBlock(buffer, <<device>>, TRUE)

make_device_memory_ptr(device, memory) == ControlBlock(memory, <<device>>, TRUE)

----------------------------------------------------------------------------
(* std::shared_ptr semantics of the wrapper types (types.hpp:39-85)        *)

\* One native destroy call (vkDestroy* / vkFree*) on the handle of o.
NativeDestroy(st, o) ==
    [st EXCEPT !.destroyCalls[o] = @ + 1]

\* Mutant: the deleter makes no native call.
RunDeleter_nothing(st, o) == st

\* The body of the deleter lambda of a make_*_ptr factory.
RunDeleter(st, o) ==
    LET destroyed == IF st.blocks[o].guarded /\ st.blocks[o].handle = "null"
                     THEN st
                     ELSE NativeDestroy(st, o)
    IN  IF "plogger" \in DOMAIN st.blocks[o]
        THEN NativeDestroy(destroyed, st.blocks[o].plogger)
        ELSE destroyed

RECURSIVE ReleaseRef(_, _), ReleaseAll(_, _)

\* A shared_ptr that refers to block o is destroyed or reset: the use count
\* drops; at zero the deleter runs and is then destroyed with its captures
\* (the members of the closure, in reverse order of declaration).
ReleaseRef(st, o) ==
    LET dec == [st EXCEPT !.blocks[o].rc = @ - 1] IN
    IF dec.blocks[o].rc # 0
    THEN dec
    ELSE ReleaseAll([RunDeleter(dec, o) EXCEPT !.blocks[o].caps = <<>>],
                    Reverse(dec.blocks[o].caps))

ReleaseAll(st, ps) ==
    IF ps = <<>> THEN st
    ELSE ReleaseAll(ReleaseRef(st, Head(ps)), Tail(ps))

\* A factory call: the new block is registered; each captured parent gains a
\* reference (the by-value parameter that is moved into the lambda).
AddBlock(bs, o, blk) ==
    (o :> blk) @@
    [p \in DOMAIN bs |->
        IF p \in Range(blk.caps) THEN [bs[p] EXCEPT !.rc = @ + 1] ELSE bs[p]]

\* std::shared_ptr move construction from a handle referring to o: the new
\* handle refers to o, the source is left empty (0).
SharedPtrMove(o) == [dst |-> o, src |-> 0]

OwnState == [blocks |-> blocks, destroyCalls |-> destroyCalls]

Usable(o) == o \in DOMAIN blocks /\ held[o] > 0 /\ blocks[o].handle = "valid"

NativeAlive(o) == o \in DOMAIN nativeDeps /\ destroyCalls[o] = 0

----------------------------------------------------------------------------
(* The caller's set-up sequences: the set-ups of the test cases of        *)
(* setup.cpp, each step one create_* function.                            *)

\* TEST_CASE("Create swapchain"), setup.cpp:1440-1467
ProgramCreateSwapchain == << "instance", "surface", "device", "swapchain" >>

\* TEST_CASE("Create render pass"), setup.cpp:1482-1513
ProgramCreateRenderPass ==
    << "instance", "messenger", "surface", "device", "render_pass" >>

\* TEST_CASE("Create frame buffers"), setup.cpp:1516-1557
ProgramCreateFrameBuffers ==
    << "instance", "messenger", "surface", "device", "swapchain", "render_pass",
       "framebuffers" >>

\* TEST_CASE("Create command buffers"), setup.cpp:1559-1592
ProgramCreateCommandBuffers ==
    << "instance", "messenger", "surface", "device", "command_pool",
       "command_buffers" >>

\* TEST_CASE("Create semaphores"), setup.cpp:1594-1624
ProgramCreateSemaphores ==
    << "instance", "messenger", "surface", "device", "semaphore" >>

\* The two factories of types.hpp:82-85 that no create_* function calls: a
\* caller that wraps a VkBuffer and a VkDeviceMemory of its device.
ProgramMakeBufferAndMemory == << "instance", "device", "buffer", "device_memory" >>

Programs ==
    { ProgramCreateSwapchain, ProgramCreateRenderPass, ProgramCreateFrameBuffers,
      ProgramCreateCommandBuffers, ProgramCreateSemaphores, ProgramMakeBufferAndMemory }

NextStep == IF setup_pc < Len(program) THEN program[setup_pc + 1] ELSE "done"

Instance == Obj("instance", 1)
Messenger == Obj("messenger", 1)
Plogger(i) == Obj("plogger", i)
Surface == Obj("surface", 1)
Device == Obj("device", 1)
Semaphore == Obj("semaphore", 1)
Swapchain == Obj("swapchain", 1)
ImageView(i) == Obj("image_view", i)
RenderPass == Obj("render_pass", 1)
Framebuffer(i) == Obj("framebuffer", i)
CommandPool == Obj("command_pool", 1)
CommandBuffers == Obj("command_buffers", 1)
Buffer == Obj("buffer", 1)
DeviceMemory == Obj("device_memory", 1)

\* The wrappers the caller holds in a std::vector (image_views, frame_buffers).
VectorKinds == {"image_view", "framebuffer"}

Elements(kind) == {o \in DOMAIN blocks : KindOf(o) = kind /\ o[2] > 0}

ImageViews == {o \in DOMAIN blocks : KindOf(o) = "image_view" /\ o[2] > 0}

RECURSIVE AddBlocks(_, _)
AddBlocks(bs, news) ==
    IF news = <<>> THEN bs
    ELSE AddBlocks(AddBlock(bs, Head(news).id, Head(news).blk), Tail(news))

New(o, blk, deps) == [id |-> o, blk |-> blk, deps |-> deps]

\* The logger records the new debug messenger wrappers hold.
Ploggers(news) ==
    {news[i].blk.plogger : i \in {k \in DOMAIN news : "plogger" \in DOMAIN news[k].blk}}

\* The wrappers in news are returned to the caller, which holds one handle
\* to each.
Returned(news) ==
    LET ids == {news[i].id : i \in DOMAIN news}
        made == {i \in DOMAIN news : news[i].blk.handle = "valid"}
    IN /\ blocks' = AddBlocks(blocks, news)
       /\ held' = [o \in ids |-> 1] @@ held
       /\ destroyCalls' = [o \in ids \cup Ploggers(news) |-> 0] @@ destroyCalls
       /\ nativeDeps' =
            [o \in {news[i].id : i \in made} |->
                news[CHOOSE i \in made : news[i].id = o].deps]
            @@ nativeDeps
       /\ vectors' = vectors \cup {KindOf(o) : o \in {i \in ids : i[1] \in VectorKinds /\ i[2] > 0}}
       /\ UNCHANGED emptied
       /\ UNCHANGED notOwnVars

create_vulkan_instance ==
    /\ NextStep = "instance"
    /\ setup_pc' = setup_pc + 1
    /\ UNCHANGED program
    /\ Returned(<<New(Instance, make_instance_ptr("valid"), {})>>)

create_debug_messenger ==
    /\ NextStep = "messenger"
    /\ Usable(Instance)
    /\ setup_pc' = setup_pc + 1
    /\ UNCHANGED program
    /\ Returned(<<New(Messenger, make_debug_messenger_ptr(Instance, Plogger(1), "valid"),
                      {Instance})>>)

create_surface ==
    /\ NextStep = "surface"
    /\ Usable(Instance)
    /\ setup_pc' = setup_pc + 1
    /\ UNCHANGED program
    /\ Returned(<<New(Surface, make_surface_ptr(Instance, "valid"), {Instance})>>)

\* The physical device was enumerated from the instance; the instance wrapper
\* itself is not an argument.
create_device_and_queues ==
    /\ NextStep = "device"
    /\ NativeAlive(Instance)
    /\ setup_pc' = setup_pc + 1
    /\ UNCHANGED program
    /\ Returned(<<New(Device, make_device_ptr("valid"), {Instance})>>)

create_semaphore ==
    /\ NextStep = "semaphore"
    /\ Usable(Device)
    /\ setup_pc' = setup_pc + 1
    /\ UNCHANGED program
    /\ Returned(<<New(Semaphore, make_semaphore_ptr(Device, "valid"), {Device})>>)

\* The driver decides the number of swapchain images; one view per image.
create_exclusive_double_buffer_swapchain_and_image_views ==
    /\ NextStep = "swapchain"
    /\ Usable(Device)
    /\ Usable(Surface)
    /\ setup_pc' = setup_pc + 1
    /\ UNCHANGED program
    /\ \E n \in 1..MaxImages :
         Returned(
            <<New(Swapchain, make_swapchain_ptr(Device, "valid"), {Device, Surface})>>
            \o [i \in 1..n |->
                  New(ImageView(i), make_image_view_ptr(Device, "valid"),
                      {Device, Swapchain})])

create_single_presentation_subpass_render_pass ==
    /\ NextStep = "render_pass"
    /\ Usable(Device)
    /\ setup_pc' = setup_pc + 1
    /\ UNCHANGED program
    /\ Returned(<<New(RenderPass, make_render_pass_ptr(Device, "valid"), {Device})>>)

\* One framebuffer per image view of the span the caller passes.
create_per_image_frame_buffers ==
    /\ NextStep = "framebuffers"
    /\ Usable(Device)
    /\ Usable(RenderPass)
    /\ "image_view" \in vectors
    /\ setup_pc' = setup_pc + 1
    /\ UNCHANGED program
    /\ Returned(
          [i \in 1..Cardinality(ImageViews) |->
              New(Framebuffer(i), make_framebuffer_ptr(Device, "valid"),
                  {Device, RenderPass, ImageView(i)})])

create_command_pool ==
    /\ NextStep = "command_pool"
    /\ Usable(Device)
    /\ setup_pc' = setup_pc + 1
    /\ UNCHANGED program
    /\ Returned(<<New(CommandPool, make_command_pool_ptr(Device, "valid"), {Device})>>)

create_primary_command_buffers ==
    /\ NextStep = "command_buffers"
    /\ Usable(Device)
    /\ Usable(CommandPool)
    /\ setup_pc' = setup_pc + 1
    /\ UNCHANGED program
    /\ Returned(<<New(CommandBuffers,
                      make_command_buffers_ptr(Device, CommandPool, "valid"),
                      {Device, CommandPool})>>)

MakeBufferPtr ==
    /\ NextStep = "buffer"
    /\ Usable(Device)
    /\ setup_pc' = setup_pc + 1
    /\ UNCHANGED program
    /\ Returned(<<New(Buffer, make_buffer_ptr(Device, "valid"), {Device})>>)

MakeDeviceMemoryPtr ==
    /\ NextStep = "device_memory"
    /\ Usable(Device)
    /\ setup_pc' = setup_pc + 1
    /\ UNCHANGED program
    /\ Returned(<<New(DeviceMemory, make_device_memory_ptr(Device, "valid"), {Device})>>)

NullWrappers == {o \in DOMAIN blocks : blocks[o].handle = "null"}

\* A direct factory call with VK_NULL_HANDLE (types.cpp accepts any handle).
NullWrapper(kind) ==
    CASE kind = "instance" -> make_instance_ptr("null")
      [] kind = "messenger" ->
            make_debug_messenger_ptr(Instance, Plogger(0 - Cardinality(NullWrappers)), "null")
      [] kind = "surface" -> make_surface_ptr(Instance, "null")
      [] kind = "device" -> make_device_ptr("null")
      [] kind = "semaphore" -> make_semaphore_ptr(Device, "null")
      [] kind = "swapchain" -> make_swapchain_ptr(Device, "null")
      [] kind = "image_view" -> make_image_view_ptr(Device, "null")
      [] kind = "render_pass" -> make_render_pass_ptr(Device, "null")
      [] kind = "framebuffer" -> make_framebuffer_ptr(Device, "null")
      [] kind = "command_pool" -> make_command_pool_ptr(Device, "null")

NullKinds ==
    { "instance", "messenger", "surface", "device", "semaphore", "swapchain",
      "image_view", "render_pass", "framebuffer", "command_pool" }

ExtraCopies ==
    Cardinality({<<o, k>> \in (DOMAIN blocks) \X (2..(MaxExtra + 2)) : k <= held[o]})

Extras == ExtraCopies + emptied + Cardinality(NullWrappers)

make_ptr_of_null_handle ==
    /\ Extras < MaxExtra
    /\ \E kind \in NullKinds :
         /\ \A p \in Range(NullWrapper(kind).caps) : Usable(p)
         /\ Returned(<<New(Obj("null_handle", 0 - Cardinality(NullWrappers)),
                           NullWrapper(kind), {})>>)
    /\ UNCHANGED <<program, setup_pc>>

----------------------------------------------------------------------------
(* The caller's handle variables: copy, move, destruction / reset.         *)

CopyHandle(o) ==
    /\ held[o] > 0
    /\ Extras < MaxExtra
    /\ blocks' = [blocks EXCEPT ![o].rc = @ + 1]
    /\ held' = [held EXCEPT ![o] = @ + 1]
    /\ UNCHANGED <<program, setup_pc, emptied, destroyCalls, nativeDeps, vectors>>
    /\ UNCHANGED notOwnVars

MoveHandle(o) ==
    /\ held[o] > 0
    /\ Extras < MaxExtra
    /\ LET m == SharedPtrMove(o) IN
         /\ held' = [held EXCEPT ![o] = IF m.src = 0 THEN @ ELSE @ + 1]
         /\ emptied' = IF m.src = 0 THEN emptied + 1 ELSE emptied
    /\ UNCHANGED <<program, setup_pc, blocks, destroyCalls, nativeDeps, vectors>>
    /\ UNCHANGED notOwnVars

\* A handle variable of the caller goes out of scope or is reset.
DropHandle(o) ==
    /\ held[o] > (IF KindOf(o) \in vectors /\ o[2] > 0 THEN 1 ELSE 0)
    /\ held' = [held EXCEPT ![o] = @ - 1]
    /\ LET st == ReleaseRef(OwnState, o) IN
         /\ blocks' = st.blocks
         /\ destroyCalls' = st.destroyCalls
    /\ UNCHANGED <<program, setup_pc, emptied, nativeDeps, vectors>>
    /\ UNCHANGED notOwnVars

SeqOfElements(kind) == [i \in 1..Cardinality(Elements(kind)) |-> Obj(kind, i)]

\* A std::vector of wrappers is destroyed: its elements, first to last.
DropVector(kind) ==
    /\ kind \in vectors
    /\ vectors' = vectors \ {kind}
    /\ held' = [o \in DOMAIN held |-> IF o \in Elements(kind) THEN held[o] - 1 ELSE held[o]]
    /\ LET st == ReleaseAll(OwnState, SeqOfElements(kind)) IN
         /\ blocks' = st.blocks
         /\ destroyCalls' = st.destroyCalls
    /\ UNCHANGED <<program, setup_pc, emptied, nativeDeps>>
    /\ UNCHANGED notOwnVars

\* The destructor of a moved-from handle: it refers to no control block.
DropEmptied ==
    /\ emptied > 0
    /\ emptied' = emptied - 1
    /\ UNCHANGED <<program, setup_pc, blocks, held, destroyCalls, nativeDeps, vectors>>
    /\ UNCHANGED notOwnVars

InitOwn ==
    /\ program \in Programs
    /\ setup_pc = 0
    /\ blocks = <<>>
    /\ held = <<>>
    /\ emptied = 0
    /\ destroyCalls = <<>>
    /\ nativeDeps = <<>>
    /\ vectors = {}
    /\ NoFrame
    /\ NoSelect
    /\ NoChain
    /\ NoFilter
    /\ NoDevice
    /\ NoFormats
    /\ NoCallback
    /\ NoPresent

NextOwn ==
    \/ create_vulkan_instance
    \/ create_debug_messenger
    \/ create_surface
    \/ create_device_and_queues
    \/ create_semaphore
    \/ create_exclusive_double_buffer_swapchain_and_image_views
    \/ create_single_presentation_subpass_render_pass
    \/ create_per_image_frame_buffers
    \/ create_command_pool
    \/ create_primary_command_buffers
    \/ MakeBufferPtr
    \/ MakeDeviceMemoryPtr
    \/ make_ptr_of_null_handle
    \/ \E o \in DOMAIN blocks : CopyHandle(o)
    \/ \E o \in DOMAIN blocks : MoveHandle(o)
    \/ \E o \in DOMAIN blocks : DropHandle(o)
    \/ \E kind \in VectorKinds : DropVector(kind)
    \/ DropEmptied

SpecOwn == InitOwn /\ [][NextOwn]_vars

----------------------------------------------------------------------------
(* Claims about the wrapper chain                                          *)

\* The native objects that were created from o and have not been destroyed.
LiveDependents(o) ==
    {d \in DOMAIN nativeDeps : o \in nativeDeps[d] /\ destroyCalls[d] = 0}

\* C1: no native destroy call is ever issued on an object while an object
\* that depends on it (was created from it) still exists, whatever the order
\* in which the caller drops its handles.
C1_NoDestroyBeforeDependent ==
    \A o \in DOMAIN destroyCalls : destroyCalls[o] > 0 => LiveDependents(o) = {}

\* A wrapper is in use while the caller holds a handle to its control block
\* or the deleter of another live control block holds a copy of it.
InUse(o) ==
    \/ held[o] > 0
    \/ \E c \in DOMAIN blocks : o \in Range(blocks[c].caps)

\* C8: for every wrapper of a non-null handle exactly one native destroy
\* call is issued, and it is issued when the last copy of the wrapper is
\* dropped: none while a copy is held, one once none is.  A wrapper of a null
\* handle and a moved-from handle issue no destroy call.
C8_DestroyedOnceAtLastDrop ==
    \A o \in DOMAIN blocks :
        destroyCalls[o] =
            IF blocks[o].handle = "valid" /\ ~InUse(o) THEN 1 ELSE 0

\* A wrapper of a non-null handle lost its last copy and was destroyed once;
\* a wrapper of a null handle was dropped and nothing was destroyed for it.
C8_Witness ==
    /\ \E o \in DOMAIN blocks :
         blocks[o].handle = "valid" /\ ~InUse(o) /\ destroyCalls[o] = 1
    /\ \E n \in DOMAIN blocks :
         blocks[n].handle = "null" /\ held[n] = 0 /\ destroyCalls[n] = 0

----------------------------------------------------------------------------
(* The frame: draw.cpp                                                     *)

\* Largest number of images of the swapchain the frames are drawn to.
MaxFrameImages == 2

\* Result codes the native calls of a frame hand back.
VkResults ==
    {"VK_SUCCESS", "VK_SUBOPTIMAL_KHR", "VK_ERROR_OUT_OF_DATE_KHR", "VK_NOT_READY",
     "VK_TIMEOUT", "VK_ERROR_DEVICE_LOST", "VK_ERROR_SURFACE_LOST_KHR"}
\* Result codes of the calls wrapped in VK_CHECK.
VkCheckedResults == {"VK_SUCCESS", "VK_ERROR_DEVICE_LOST"}

\* VK_CHECK(func, msg): TRUE when the macro throws std::runtime_error.
VK_CHECK(result) == result # "VK_SUCCESS"

\* Mutant: only VK_ERROR_OUT_OF_DATE_KHR is taken as stale.
acquire_next_swapchain_image_suboptimal_ok(result, out) ==
    IF result = "VK_ERROR_OUT_OF_DATE_KHR"
    THEN [kind |-> "nullopt", idx |-> -1]
    ELSE IF result \notin {"VK_SUCCESS", "VK_SUBOPTIMAL_KHR"}
         THEN [kind |-> "throw", idx |-> -1]
         ELSE [kind |-> "value", idx |-> out]

\* acquire_next_swapchain_image, given the result of vkAcquireNextImageKHR and
\* the index the driver wrote to `out`.
acquire_next_swapchain_image(result, out) ==
    IF result = "VK_ERROR_OUT_OF_DATE_KHR" \/ result = "VK_SUBOPTIMAL_KHR"
    THEN [kind |-> "nullopt", idx |-> -1]
    ELSE IF result # "VK_SUCCESS"
         THEN [kind |-> "throw", idx |-> -1]
         ELSE [kind |-> "value", idx |-> out]

\* Mutant: a suboptimal present is reported as presented.
submit_present_image_cmd_suboptimal_ok(result) ==
    IF result = "VK_ERROR_OUT_OF_DATE_KHR"
    THEN "false"
    ELSE IF result \notin {"VK_SUCCESS", "VK_SUBOPTIMAL_KHR"} THEN "throw" ELSE "true"

\* submit_present_image_cmd, given the result of vkQueuePresentKHR.
submit_present_image_cmd(result) ==
    IF result = "VK_ERROR_OUT_OF_DATE_KHR" \/ result = "VK_SUBOPTIMAL_KHR"
    THEN "false"
    ELSE IF result # "VK_SUCCESS" THEN "throw" ELSE "true"

\* Mutant: the optional is read with operator*, which does not test it.
value_unchecked(maybe) == [threw |-> FALSE, idx |-> IF maybe.idx < 0 THEN 0 ELSE maybe.idx]

\* std::optional::value(): the index, or std::bad_optional_access.
value(maybe) ==
    IF maybe.kind = "value"
    THEN [threw |-> FALSE, idx |-> maybe.idx]
    ELSE [threw |-> TRUE, idx |-> -1]

\* One native call of a frame, as the queue and the driver see it.
Op(name, idx, result, ret) ==
    [op |-> name, frame |-> frame, idx |-> idx, result |-> result, ret |-> ret]

\* An exception leaves the subcase.
Throw(what) == pc' = "failed" /\ failure' = what

\* The image index the current frame works on (image_idx, image_idx_2).
CurrentImageIdx == image_idx[frame]

\* Mutant: the call is left out, nothing is waited for.
vkQueueWaitIdle_omitted(queued) == queued

\* VK_CHECK(vkQueueWaitIdle(queue), ...) that succeeded: what is still queued.
vkQueueWaitIdle(queued) == {}

\* auto const image_available_semaphore = setup::create_semaphore(device);
\* auto const rendering_finished_semaphore = setup::create_semaphore(device);
\* a binary semaphore is created unsignaled.
FrameSemaphores ==
    [s \in {"image_available_semaphore", "rendering_finished_semaphore"} |-> "unsignaled"]

\* The semaphores after a queue operation that waits on `waits` and signals
\* `signals` was accepted: a signal stays until a wait consumes it, a wait is
\* outstanding until the queue has executed it.
SemaphoreOps(sems, waits, signals) ==
    [s \in DOMAIN sems |->
        IF s \in waits THEN "wait_queued"
        ELSE IF s \in signals THEN "signaled"
        ELSE sems[s]]

\* vkAcquireNextImageKHR(device, swapchain, UINT64_MAX, semaphore, nullptr, &out):
\* the semaphore is signaled when an image was acquired, which is the case for
\* VK_SUCCESS and for VK_SUBOPTIMAL_KHR.
vkAcquireNextImageKHR(sems, semaphore, result) ==
    IF result \in {"VK_SUCCESS", "VK_SUBOPTIMAL_KHR"}
    THEN SemaphoreOps(sems, {}, {semaphore})
    ELSE sems

\* Mutant: the submission waits on no semaphore (waitSemaphoreCount = 0).
submit_command_buffer_no_wait(wait_semaphore, signal_semaphore) ==
    [pWaitSemaphores |-> {}, pSignalSemaphores |-> {signal_semaphore}]

\* The VkSubmitInfo submit_command_buffer fills in: one wait semaphore and one
\* signal semaphore, each counted when its handle is not null.
submit_command_buffer(wait_semaphore, signal_semaphore) ==
    [pWaitSemaphores |-> {wait_semaphore}, pSignalSemaphores |-> {signal_semaphore}]

\* vkQueueSubmit(queue, 1, &submit_info, nullptr) that returned VK_SUCCESS.
vkQueueSubmit(sems, submit_info) ==
    SemaphoreOps(sems, submit_info.pWaitSemaphores, submit_info.pSignalSemaphores)

\* vkQueuePresentKHR(queue, &present_info): the wait on pWaitSemaphores is
\* enqueued when the request was accepted and also when the presentation
\* engine rejected it as out of date or because the surface was lost.
vkQueuePresentKHR(sems, wait_semaphore, result) ==
    IF result \in {"VK_SUCCESS", "VK_SUBOPTIMAL_KHR", "VK_ERROR_OUT_OF_DATE_KHR",
                   "VK_ERROR_SURFACE_LOST_KHR"}
    THEN SemaphoreOps(sems, {wait_semaphore}, {})
    ELSE sems

\* The semaphores once the queue is idle: every queued wait has executed and
\* left its semaphore unsignaled.
QueueIdle(sems) ==
    [s \in DOMAIN sems |-> IF sems[s] = "wait_queued" THEN "unsignaled" ELSE sems[s]]

\* auto const maybe_image_idx = acquire_next_swapchain_image(device, swapchain, ...)
AcquireImage ==
    /\ pc = "acquire"
    /\ \E result \in VkResults, out \in 0..(image_count - 1) :
         LET got == acquire_next_swapchain_image(result, out) IN
         /\ maybe_image_idx' = got
         /\ ops' = Append(ops, Op("Acquire", out, result, got.kind))
         /\ semaphores' = vkAcquireNextImageKHR(semaphores, "image_available_semaphore", result)
         /\ IF got.kind = "throw"
            THEN Throw("std::runtime_error")
            ELSE pc' = "check" /\ UNCHANGED failure
    /\ UNCHANGED <<subcase, image_count, frame, image_idx, pending>>
    /\ UNCHANGED notFrameVars

\* CHECK(maybe_image_idx) (goes on) or REQUIRE(maybe_image_idx) (leaves), then
\* auto const image_idx = maybe_image_idx.value()
CheckAcquired ==
    /\ pc = "check"
    /\ IF subcase = "render twice" /\ maybe_image_idx.kind # "value"
       THEN Throw("REQUIRE(maybe_image_idx)") /\ UNCHANGED image_idx
       ELSE LET v == value(maybe_image_idx) IN
            IF v.threw
            THEN Throw("std::bad_optional_access") /\ UNCHANGED image_idx
            ELSE /\ image_idx' = Append(image_idx, v.idx)
                 /\ pc' = "record"
                 /\ UNCHANGED failure
    /\ UNCHANGED <<subcase, image_count, frame, maybe_image_idx, pending, semaphores, ops>>
    /\ UNCHANGED notFrameVars

\* populate_cmd_render_pass(command_buffers->at(image_idx),
\*                          render_pass, frame_buffers.at(image_idx), ...)
PopulateCmdRenderPass ==
    /\ pc = "record"
    /\ \E result \in VkCheckedResults :
         /\ ops' = Append(ops, Op("Record", CurrentImageIdx, result, "void"))
         /\ IF VK_CHECK(result)
            THEN Throw("std::runtime_error")
            ELSE pc' = "submit" /\ UNCHANGED failure
    /\ UNCHANGED <<subcase, image_count, frame, maybe_image_idx, image_idx, pending,
                   semaphores>>
    /\ UNCHANGED notFrameVars

\* submit_command_buffer(queue, command_buffer, image_available_semaphore,
\*                       rendering_finished_semaphore)
SubmitCommandBuffer ==
    /\ pc = "submit"
    /\ \E result \in VkCheckedResults :
         /\ ops' = Append(ops, Op("Submit", CurrentImageIdx, result, "void"))
         /\ IF VK_CHECK(result)
            THEN Throw("std::runtime_error") /\ UNCHANGED <<pending, semaphores>>
            ELSE /\ pending' = pending \cup {<<"commands", frame>>}
                 /\ semaphores' =
                        vkQueueSubmit(semaphores,
                                      submit_command_buffer("image_available_semaphore",
                                                            "rendering_finished_semaphore"))
                 /\ pc' = "present"
                 /\ UNCHANGED failure
    /\ UNCHANGED <<subcase, image_count, frame, maybe_image_idx, image_idx>>
    /\ UNCHANGED notFrameVars

\* submit_present_image_cmd(queue, swapchain, image_idx,
\*                          rendering_finished_semaphore); the bool is not read.
SubmitPresentImageCmd ==
    /\ pc = "present"
    /\ \E result \in VkResults :
         LET ret == submit_present_image_cmd(result) IN
         /\ ops' = Append(ops, Op("Present", CurrentImageIdx, result, ret))
         /\ semaphores' = vkQueuePresentKHR(semaphores, "rendering_finished_semaphore", result)
         /\ IF ret = "throw"
            THEN Throw("std::runtime_error") /\ UNCHANGED pending
            ELSE /\ pending' = pending \cup
                        (IF result \in {"VK_SUCCESS", "VK_SUBOPTIMAL_KHR"}
                         THEN {<<"present", frame>>} ELSE {})
                 /\ pc' = "wait_idle"
                 /\ UNCHANGED failure
    /\ UNCHANGED <<subcase, image_count, frame, maybe_image_idx, image_idx>>
    /\ UNCHANGED notFrameVars

\* VK_CHECK(vkQueueWaitIdle(queue), "Failed to wait for queue to be idle"),
\* then the second frame of "render twice" or the end of the subcase.
QueueWaitIdle ==
    /\ pc = "wait_idle"
    /\ \E result \in VkCheckedResults :
         /\ ops' = Append(ops, Op("WaitIdle", -1, result, "void"))
         /\ IF VK_CHECK(result)
            THEN Throw("std::runtime_error") /\ UNCHANGED <<pending, semaphores, frame>>
            ELSE /\ pending' = vkQueueWaitIdle(pending)
                 /\ semaphores' = QueueIdle(semaphores)
                 /\ UNCHANGED failure
                 /\ IF subcase = "render twice" /\ frame = 1
                    THEN pc' = "acquire" /\ frame' = 2
                    ELSE pc' = "passed" /\ UNCHANGED frame
    /\ UNCHANGED <<subcase, image_count, maybe_image_idx, image_idx>>
    /\ UNCHANGED notFrameVars

\* After the set-up of TEST_CASE("Populate command queue and present").
InitRender ==
    /\ subcase \in {"render once", "render twice"}
    /\ image_count \in 1..MaxFrameImages
    /\ pc = "acquire"
    /\ frame = 1
    /\ maybe_image_idx = NotAcquired
    /\ image_idx = <<>>
    /\ pending = {}
    /\ semaphores = FrameSemaphores
    /\ ops = <<>>
    /\ failure = ""
    /\ NoOwn
    /\ NoSelect
    /\ NoChain
    /\ NoFilter
    /\ NoDevice
    /\ NoFormats
    /\ NoCallback
    /\ NoPresent

NextRender ==
    \/ AcquireImage
    \/ CheckAcquired
    \/ PopulateCmdRenderPass
    \/ SubmitCommandBuffer
    \/ SubmitPresentImageCmd
    \/ QueueWaitIdle

SpecRender == InitRender /\ [][NextRender]_vars

----------------------------------------------------------------------------
(* Claims about the frame                                                  *)

StaleCodes == {"VK_ERROR_OUT_OF_DATE_KHR", "VK_SUBOPTIMAL_KHR"}
LastOp == ops[Len(ops)]
FrameOps(f) == SelectSeq(ops, LAMBDA e : e.frame = f)
FrameOrder == <<"Acquire", "Record", "Submit", "Present", "WaitIdle">>

\* C2: a stale result (out of date, suboptimal) of Acquire or of Present
\* never makes the frames fail or end, and no Acquire is issued on a chain
\* that has reported stale: the chain is recreated first.  (Every Acquire of
\* the frames is issued on the one `swapchain` of the set-up.)
C2_StaleSkipsAndRecreates ==
    /\ failure \notin {"REQUIRE(maybe_image_idx)", "std::bad_optional_access"}
    /\ \A j, k \in DOMAIN ops :
         (j < k /\ ops[k].op = "Acquire") => ops[j].ret \notin {"nullopt", "false"}

\* C3: acquire_next_swapchain_image returns an empty optional iff the native
\* result is VK_ERROR_OUT_OF_DATE_KHR or VK_SUBOPTIMAL_KHR; on VK_SUCCESS it
\* returns the index the driver wrote, within 0..image_count-1; on any other
\* result it throws and returns nothing.
C3_AcquireReturn ==
    (ops # <<>> /\ LastOp.op = "Acquire") =>
        /\ (maybe_image_idx.kind = "nullopt") <=> (LastOp.result \in StaleCodes)
        /\ (LastOp.result = "VK_SUCCESS") =>
              /\ maybe_image_idx.kind = "value"
              /\ maybe_image_idx.idx = LastOp.idx
              /\ 0 <= maybe_image_idx.idx /\ maybe_image_idx.idx < image_count
        /\ (LastOp.result \notin StaleCodes \cup {"VK_SUCCESS"}) =>
              /\ maybe_image_idx.kind = "throw"
              /\ pc = "failed" /\ failure = "std::runtime_error"

\* The second Acquire of "render twice" was answered VK_SUBOPTIMAL_KHR and
\* returned an empty optional, the first one returned an index.
C3_Witness ==
    /\ Len(ops) > 1 /\ LastOp.op = "Acquire"
    /\ LastOp.result = "VK_SUBOPTIMAL_KHR" /\ maybe_image_idx.kind = "nullopt"
    /\ ops[1].result = "VK_SUCCESS" /\ ops[1].ret = "value"

\* C4: submit_present_image_cmd returns false iff the native result is
\* VK_ERROR_OUT_OF_DATE_KHR or VK_SUBOPTIMAL_KHR, true iff it is VK_SUCCESS,
\* and throws on every other result.
C4_PresentReturn ==
    (ops # <<>> /\ LastOp.op = "Present") =>
        /\ (LastOp.ret = "false") <=> (LastOp.result \in StaleCodes)
        /\ (LastOp.ret = "true") <=> (LastOp.result = "VK_SUCCESS")
        /\ (LastOp.result \notin StaleCodes \cup {"VK_SUCCESS"}) =>
              /\ LastOp.ret = "throw"
              /\ pc = "failed" /\ failure = "std::runtime_error"

\* A present answered VK_SUBOPTIMAL_KHR returned false and the caller went on.
C4_Witness ==
    /\ ops # <<>> /\ LastOp.op = "Present"
    /\ LastOp.result = "VK_SUBOPTIMAL_KHR" /\ LastOp.ret = "false"
    /\ pc = "wait_idle"

\* C5: the calls of a frame are issued in the order Acquire, Record, Submit,
\* Present, queue-idle wait; Record, Submit and Present are on the index that
\* frame's Acquire returned and there is none of them in a frame whose Acquire
\* returned no index; so every Submit follows a Record of the same buffer in
\* its frame.
C5_FrameOrder ==
    /\ \A j, k \in DOMAIN ops : j < k => ops[j].frame <= ops[k].frame
    /\ \A f \in {e.frame : e \in Range(ops)} :
         LET fo == FrameOps(f) IN
         /\ Len(fo) <= Len(FrameOrder)
         /\ \A k \in DOMAIN fo :
              /\ k <= Len(FrameOrder) => fo[k].op = FrameOrder[k]
              /\ k \in 2..4 => fo[1].ret = "value" /\ fo[k].idx = fo[1].idx

\* "render twice" ran both frames to the end, on two different images.
C5_Witness ==
    /\ subcase = "render twice" /\ pc = "passed"
    /\ Len(FrameOps(1)) = 5 /\ Len(FrameOps(2)) = 5
    /\ image_idx[1] # image_idx[2]

\* C6: at most one frame's work is outstanding: what is queued belongs to
\* the current frame, and nothing is queued when a Submit is about to be
\* issued, also after a frame whose Present reported stale.
C6_OneFrameOutstanding ==
    /\ \A w \in pending : w[2] = frame
    /\ pc = "submit" => pending = {}

\* The second Submit was issued after a first frame whose Present was queued
\* and reported stale.
C6_Witness ==
    /\ frame = 2 /\ pc = "present"
    /\ pending = {<<"commands", 2>>}
    /\ \E k \in DOMAIN ops :
         ops[k].op = "Present" /\ ops[k].frame = 1 /\ ops[k].ret = "false"

----------------------------------------------------------------------------
(* Device selection: setup.cpp                                             *)

\* Largest number of physical devices the instance enumerates.
MaxDevices == 2

\* What the driver reports of a physical device.
DeviceTypes ==
    {"VK_PHYSICAL_DEVICE_TYPE_DISCRETE_GPU", "VK_PHYSICAL_DEVICE_TYPE_INTEGRATED_GPU"}
ExtensionSets == {{}, {"VK_KHR_swapchain"}}
QueueFamily(flags, present) == [queueFlags |-> flags, present |-> present]
QueueFamilyLists ==
    { <<QueueFamily({"VK_QUEUE_GRAPHICS_BIT"}, TRUE)>>,
      <<QueueFamily({"VK_QUEUE_GRAPHICS_BIT"}, FALSE),
        QueueFamily({"VK_QUEUE_TRANSFER_BIT"}, TRUE)>>,
      <<QueueFamily({"VK_QUEUE_TRANSFER_BIT"}, TRUE),
        QueueFamily({"VK_QUEUE_GRAPHICS_BIT", "VK_QUEUE_TRANSFER_BIT"}, TRUE)>> }
MemoryTypeLists ==
    { <<{"VK_MEMORY_PROPERTY_DEVICE_LOCAL_BIT"}>>,
      <<{"VK_MEMORY_PROPERTY_DEVICE_LOCAL_BIT"},
        {"VK_MEMORY_PROPERTY_HOST_VISIBLE_BIT", "VK_MEMORY_PROPERTY_HOST_COHERENT_BIT"}>> }
PhysicalDevices ==
    [deviceType : DeviceTypes, extensions : ExtensionSets,
     queue_family_properties : QueueFamilyLists, memoryTypes : MemoryTypeLists]

RECURSIVE SeqsUpTo(_, _)
SeqsUpTo(S, n) ==
    IF n = 0 THEN {<<>>}
    ELSE LET shorter == SeqsUpTo(S, n - 1) IN
         shorter \cup {Append(q, x) : q \in shorter, x \in S}

\* std::views::iota(0U, n), filtered below with std::views::filter (SelectSeq).
Iota(n) == [i \in 1..n |-> i - 1]

\* filter_available_device_extensions: the names to enable.
filter_available_device_extensions(physical_device, desired_device_extension_names) ==
    IF desired_device_extension_names = {}
    THEN {}
    ELSE physical_device.extensions \cap desired_device_extension_names

\* Mutant: presentation support is asked of the device (any family), not of
\* the family.
filter_available_queue_families_per_device(physical_device, desired_queue_capabilities, desired_surface) ==
    LET props == physical_device.queue_family_properties
        HasCaps(idx) == desired_queue_capabilities \subseteq props[idx + 1].queueFlags
        CanPresent(idx) == desired_surface = "null" \/ \E f \in DOMAIN props : props[f].present
    IN  SelectSeq(Iota(Len(props)), LAMBDA idx : HasCaps(idx) /\ CanPresent(idx))

\* filter_available_queue_families: the indices of the families that have
\* the capabilities and, with a surface, can present to it.
filter_available_queue_families(physical_device, desired_queue_capabilities, desired_surface) ==
    LET props == physical_device.queue_family_properties
        HasCaps(idx) == desired_queue_capabilities \subseteq props[idx + 1].queueFlags
        CanPresent(idx) == desired_surface = "null" \/ props[idx + 1].present
    IN  SelectSeq(Iota(Len(props)), LAMBDA idx : HasCaps(idx) /\ CanPresent(idx))

\* TRUE when filter_available_queue_families asks the driver for surface
\* support (a family has the capabilities and a surface is given).
QueriesSurfaceSupport(physical_device, desired_queue_capabilities, desired_surface) ==
    /\ desired_surface # "null"
    /\ \E f \in DOMAIN physical_device.queue_family_properties :
         desired_queue_capabilities \subseteq
             physical_device.queue_family_properties[f].queueFlags

\* Mutant: the flags are not compared, every memory type is kept.
filter_available_memory_types_unfiltered(physical_device, memory_flags) ==
    Iota(Len(physical_device.memoryTypes))

\* filter_available_memory_types: the indices of the types with the flags.
filter_available_memory_types(physical_device, memory_flags) ==
    SelectSeq(Iota(Len(physical_device.memoryTypes)),
              LAMBDA idx : memory_flags \subseteq physical_device.memoryTypes[idx + 1])

\* The loop of select_physical_device keeps a device: it has every required
\* extension, a queue family and a memory type that pass the filters.
IsCandidate(physical_device) ==
    /\ ~(Cardinality(filter_available_device_extensions(
                         physical_device, required_device_extensions))
           < Cardinality(required_device_extensions))
    /\ filter_available_queue_families(
           physical_device, required_queue_capabilities, required_surface_support) # <<>>
    /\ filter_available_memory_types(physical_device, required_memory_type) # <<>>

\* score = (deviceType == VK_PHYSICAL_DEVICE_TYPE_DISCRETE_GPU)
Score(physical_device) ==
    IF physical_device.deviceType = "VK_PHYSICAL_DEVICE_TYPE_DISCRETE_GPU" THEN 1 ELSE 0

\* candidates.emplace_back(score, physical_device, filtered_queue_families.front())
\* for the devices the loop keeps, in enumeration order.  A device is named by
\* its place in physical_devices.
Candidates ==
    LET kept == SelectSeq([i \in 1..Len(physical_devices) |-> i],
                          LAMBDA i : IsCandidate(physical_devices[i]))
    IN  [k \in 1..Len(kept) |->
            [score |-> Score(physical_devices[kept[k]]),
             device |-> kept[k],
             family |-> Head(filter_available_queue_families(
                                 physical_devices[kept[k]], required_queue_capabilities,
                                 required_surface_support))]]

OrdersOf(n) == {p \in [1..n -> 1..n] : \A i, j \in 1..n : i # j => p[i] # p[j]}

\* Mutant: the comparison is turned round, the sort descends in score.
std_ranges_sort_descending(candidates) ==
    {[i \in 1..Len(candidates) |-> candidates[p[i]]] :
        p \in {q \in OrdersOf(Len(candidates)) :
                 \A i \in 1..(Len(candidates) - 1) :
                     ~(candidates[q[i + 1]].score > candidates[q[i]].score)}}

\* std::ranges::sort(candidates, lhs.score < rhs.score): the sort is not
\* stable, so every order of the candidates that ascends in score can come out.
std_ranges_sort(candidates) ==
    {[i \in 1..Len(candidates) |-> candidates[p[i]]] :
        p \in {q \in OrdersOf(Len(candidates)) :
                 \A i \in 1..(Len(candidates) - 1) :
                     ~(candidates[q[i + 1]].score < candidates[q[i]].score)}}

\* VK_CHECK(vkGetPhysicalDeviceSurfaceSupportKHR(...)) throws in the loop: a
\* device that passed the extension test is asked and the call fails.
SurfaceSupportThrows ==
    /\ VK_CHECK(surface_support_result)
    /\ \E i \in DOMAIN physical_devices :
         /\ ~(Cardinality(filter_available_device_extensions(
                              physical_devices[i], required_device_extensions))
                < Cardinality(required_device_extensions))
         /\ QueriesSurfaceSupport(physical_devices[i], required_queue_capabilities,
                                  required_surface_support)

select_physical_device ==
    /\ selected.kind = "not called"
    /\ IF SurfaceSupportThrows
       THEN selected' = [NotSelected EXCEPT !.kind = "throw",
                                            !.what = "Failed to check surface support"]
       ELSE IF Candidates = <<>>
       THEN selected' = [NotSelected EXCEPT
                            !.kind = "throw",
                            !.what = "Failed to find device with desired capabilities"]
       ELSE \E sorted \in std_ranges_sort(Candidates) :
              selected' = [kind |-> "value",
                           device |-> sorted[Len(sorted)].device,
                           family |-> sorted[Len(sorted)].family,
                           what |-> ""]
    /\ UNCHANGED <<physical_devices, required_device_extensions,
                   required_queue_capabilities, required_memory_type,
                   required_surface_support, surface_support_result>>
    /\ UNCHANGED notSelectVars

\* The arguments of a call of select_physical_device.
InitSelect ==
    /\ physical_devices \in SeqsUpTo(PhysicalDevices, MaxDevices)
    /\ required_device_extensions \in ExtensionSets
    /\ required_queue_capabilities \in {{}, {"VK_QUEUE_GRAPHICS_BIT"}}
    /\ required_memory_type \in {{}, {"VK_MEMORY_PROPERTY_HOST_VISIBLE_BIT"}}
    /\ required_surface_support \in {"valid", "null"}
    /\ surface_support_result \in
           IF required_surface_support = "null"
           THEN {"VK_SUCCESS"}
           ELSE {"VK_SUCCESS", "VK_ERROR_SURFACE_LOST_KHR"}
    /\ selected = NotSelected
    /\ NoOwn
    /\ NoFrame
    /\ NoChain
    /\ NoFilter
    /\ NoDevice
    /\ NoFormats
    /\ NoCallback
    /\ NoPresent

NextSelect == select_physical_device

SpecSelect == InitSelect /\ [][NextSelect]_vars

----------------------------------------------------------------------------
(* Claims about device selection                                           *)

SelectedDevice == physical_devices[selected.device]
SelectedFamily == SelectedDevice.queue_family_properties[selected.family + 1]

\* C9: when select_physical_device returns (device, family), the device has
\* every required extension and a memory type with all the required flags,
\* and the family itself has the required capabilities and, with a surface,
\* itself can present to it.
C9_SelectedMeetsRequirements ==
    selected.kind = "value" =>
        /\ selected.device \in DOMAIN physical_devices
        /\ selected.family + 1 \in DOMAIN SelectedDevice.queue_family_properties
        /\ required_device_extensions \subseteq SelectedDevice.extensions
        /\ \E m \in DOMAIN SelectedDevice.memoryTypes :
             required_memory_type \subseteq SelectedDevice.memoryTypes[m]
        /\ required_queue_capabilities \subseteq SelectedFamily.queueFlags
        /\ required_surface_support # "null" => SelectedFamily.present

\* Extensions, memory flags and a surface are required; the second device is
\* returned with its second family, its first one being unable to present.
C9_Witness ==
    /\ selected.kind = "value" /\ selected.device = 2 /\ selected.family = 1
    /\ required_device_extensions # {} /\ required_queue_capabilities = {}
    /\ required_memory_type # {} /\ required_surface_support = "valid"
    /\ ~SelectedDevice.queue_family_properties[1].present

\* The candidates with the highest score, in enumeration order.
BestCandidates ==
    SelectSeq(Candidates, LAMBDA c : \A d \in Range(Candidates) : d.score <= c.score)

\* C10: when several surviving candidates share the highest score, the one
\* that is first in enumeration order is returned.
C10_FirstOfTiesSelected ==
    selected.kind = "value" => selected.device = Head(BestCandidates).device

\* A device meets every requirement of the call: extensions, a queue family
\* with the capabilities that (with a surface) can present, a memory type.
PassesAllFilters(physical_device) ==
    /\ required_device_extensions \subseteq physical_device.extensions
    /\ \E f \in DOMAIN physical_device.queue_family_properties :
         /\ required_queue_capabilities \subseteq
                physical_device.queue_family_properties[f].queueFlags
         /\ required_surface_support # "null" =>
                physical_device.queue_family_properties[f].present
    /\ \E m \in DOMAIN physical_device.memoryTypes :
         required_memory_type \subseteq physical_device.memoryTypes[m]

IsDiscrete(physical_device) ==
    physical_device.deviceType = "VK_PHYSICAL_DEVICE_TYPE_DISCRETE_GPU"

DeviceSelectionFailure == "Failed to find device with desired capabilities"

----------------------------------------------------------------------------
(* The presentable chain: setup.cpp:214-246, 300-489                       *)

\* Largest minImageCount / maxImageCount a surface reports.
MaxSurfaceImages == 2

\* std::numeric_limits<uint32_t>::max(), the width of an undefined extent:
\* 0xFFFFFFFF, written as the signed reading of these 32 bits, which is within
\* the integers TLC evaluates.
UINT32_MAX == -1

Max(a, b) == IF a >= b THEN a ELSE b
Min(a, b) == IF a <= b THEN a ELSE b

\* What vkGetPhysicalDeviceSurfaceCapabilitiesKHR can report: 1 <= minImageCount
\* and maxImageCount is 0 (no limit) or at least minImageCount.
SurfaceCapabilityReports ==
    {c \in [minImageCount : 1..MaxSurfaceImages,
            maxImageCount : 0..MaxSurfaceImages,
            currentExtentWidth : {1, UINT32_MAX},
            supportedCompositeAlpha :
                {{"VK_COMPOSITE_ALPHA_OPAQUE_BIT_KHR"}, {"VK_COMPOSITE_ALPHA_INHERIT_BIT_KHR"}},
            supportedUsageFlags :
                {{"VK_IMAGE_USAGE_COLOR_ATTACHMENT_BIT", "VK_IMAGE_USAGE_TRANSFER_DST_BIT"},
                 {"VK_IMAGE_USAGE_TRANSFER_DST_BIT"}}] :
        c.maxImageCount = 0 \/ c.minImageCount <= c.maxImageCount}

\* A native call and what the run makes of it.
NativeCall(fn, k) == [fn |-> fn, k |-> k]
NoFail == NativeCall("none", 0)

\* Mutant: the count is not clamped to maxImageCount.
swapchain_image_count_unclamped(capabilities) == Max(2, capabilities.minImageCount)

\* "Choose double-buffer of images, or as close as we can get."
swapchain_image_count(capabilities) ==
    LET count == Max(2, capabilities.minImageCount) IN
    IF capabilities.maxImageCount > 0
    THEN Min(capabilities.maxImageCount, count)
    ELSE count

\* Mutant: the test of the extent is left out.
SurfaceRejection_extent_unchecked(capabilities) ==
    IF "VK_COMPOSITE_ALPHA_OPAQUE_BIT_KHR" \notin capabilities.supportedCompositeAlpha
    THEN "VK_COMPOSITE_ALPHA_OPAQUE_BIT_KHR unavailable"
    ELSE IF "VK_IMAGE_USAGE_COLOR_ATTACHMENT_BIT" \notin capabilities.supportedUsageFlags
    THEN "Surface VK_IMAGE_USAGE_COLOR_ATTACHMENT_BIT unavailable"
    ELSE ""

\* The three tests before the swapchain is created: the message of the
\* std::runtime_error thrown, "" when none is.
SurfaceRejection(capabilities) ==
    IF capabilities.currentExtentWidth = UINT32_MAX
    THEN "Surface size is undefined"
    ELSE IF "VK_COMPOSITE_ALPHA_OPAQUE_BIT_KHR" \notin capabilities.supportedCompositeAlpha
    THEN "VK_COMPOSITE_ALPHA_OPAQUE_BIT_KHR unavailable"
    ELSE IF "VK_IMAGE_USAGE_COLOR_ATTACHMENT_BIT" \notin capabilities.supportedUsageFlags
    THEN "Surface VK_IMAGE_USAGE_COLOR_ATTACHMENT_BIT unavailable"
    ELSE ""

\* How many images more than minImageCount the driver may create.
MaxDriverExtra == 1

\* The images the driver gives a swapchain created with minImageCount n: at
\* least n, and no more than maxImageCount when there is one.
DriverImageCounts(capabilities, n) ==
    {k \in n..(n + MaxDriverExtra) :
        capabilities.maxImageCount = 0 \/ k <= Max(n, capabilities.maxImageCount)}

\* The state the functions below work on: the control blocks and the native
\* objects, and the log of native create calls.
ChainState ==
    [blocks |-> blocks, destroyCalls |-> destroyCalls, nativeDeps |-> nativeDeps,
     created |-> created, native_calls |-> native_calls]

Fresh(m, kind) == Obj(kind, Cardinality({o \in DOMAIN m.blocks : KindOf(o) = kind}) + 1)

\* A make_*_ptr call on a handle the driver just returned.
Make(m, o, blk, deps, with) ==
    [m EXCEPT !.blocks = AddBlock(@, o, blk),
              !.destroyCalls = (o :> 0) @@ @,
              !.nativeDeps = (o :> deps) @@ @,
              !.created = (o :> with) @@ @]

\* The log of native calls: every vkCreateSwapchainKHR call with what it was
\* given, and every call that did not return VK_SUCCESS.
Logged(m, call, result, old, count) ==
    [m EXCEPT !.native_calls =
        Append(@, [fn |-> call.fn, k |-> call.k, result |-> result,
                   oldSwapchain |-> old, minImageCount |-> count])]

\* A native call other than vkCreateSwapchainKHR fails.
Failing(m, call) == Logged(m, call, "VK_ERROR_OUT_OF_HOST_MEMORY", <<>>, 0)

ResultOf(fail, call) == IF fail = call THEN "VK_ERROR_OUT_OF_HOST_MEMORY" ELSE "VK_SUCCESS"

Thrown(m, what) == [m |-> m, threw |-> TRUE, what |-> what, value |-> <<>>]
Value(m, v) == [m |-> m, threw |-> FALSE, what |-> "", value |-> v]

\* Mutant: the create info names no previous swapchain.
oldSwapchain_null(previous) == <<>>

\* .oldSwapchain = previous_swapchain.get(): <<>> stands for the null handle.
oldSwapchain(previous) == IF previous = <<>> THEN <<>> ELSE previous[1]

\* create_exclusive_double_buffer_swapchain(..., previous_swapchain): previous
\* is <<>> or holds the previous wrapper; images is what the driver will give.
create_exclusive_double_buffer_swapchain(m, capabilities, previous, images, fail) ==
    IF fail = NativeCall("vkGetPhysicalDeviceSurfaceCapabilitiesKHR", 0)
    THEN Thrown(Failing(m, fail), "Failed to get surface capabilities")
    ELSE IF fail = NativeCall("vkGetPhysicalDeviceSurfacePresentModesKHR", 1)
    THEN Thrown(Failing(m, fail), "Failed to get present mode count")
    ELSE IF fail = NativeCall("vkGetPhysicalDeviceSurfacePresentModesKHR", 2)
    THEN Thrown(Failing(m, fail), "Failed to get present modes")
    ELSE IF SurfaceRejection(capabilities) # ""
    THEN Thrown(m, SurfaceRejection(capabilities))
    ELSE LET call == NativeCall("vkCreateSwapchainKHR", 0)
             old == oldSwapchain(previous)
             m1 == Logged(m, call, ResultOf(fail, call), old,
                          swapchain_image_count(capabilities))
             out == Fresh(m, "swapchain")
         IN  IF VK_CHECK(ResultOf(fail, call))
             THEN Thrown(m1, "Failed to create swapchain")
             ELSE Value(Make(m1, out, make_swapchain_ptr(Device, "valid"),
                             {Device, Surface},
                             [minImageCount |-> swapchain_image_count(capabilities),
                              oldSwapchain |-> old, images |-> images]),
                        <<out>>)

\* Mutant: an exception leaves the objects of the abandoned scope alone.
Unwind_leaking(m, objs) == m

\* Stack unwinding after a VK_CHECK throws: the wrappers of the abandoned
\* scope are destroyed, last constructed first.
Unwind(m, objs) == ReleaseAll(m, Reverse(objs))

RECURSIVE CreateImageViews(_, _, _, _, _)

\* The transform | ranges::to<std::vector> of setup.cpp:367-379 from image i
\* on; done holds the views already in the vector.
CreateImageViews(m, swapchain, i, done, fail) ==
    IF i > m.created[swapchain].images
    THEN Value(m, done)
    ELSE IF fail = NativeCall("vkCreateImageView", i)
    THEN Thrown(Unwind(Failing(m, fail), done), "Failed to create image view")
    ELSE LET image_view == Fresh(m, "image_view") IN
         CreateImageViews(
             Make(m, image_view, make_image_view_ptr(Device, "valid"), {Device, swapchain},
                  [swapchain |-> swapchain, image |-> i]),
             swapchain, i + 1, Append(done, image_view), fail)

create_colour_aspect_single_mip_single_layer_swapchain_image_views(m, swapchain, fail) ==
    IF fail = NativeCall("vkGetSwapchainImagesKHR", 1)
    THEN Thrown(Failing(m, fail), "Failed to get swapchain image count")
    ELSE IF fail = NativeCall("vkGetSwapchainImagesKHR", 2)
    THEN Thrown(Failing(m, fail), "Failed to get swapchain images")
    ELSE CreateImageViews(m, swapchain, 1, <<>>, fail)

\* create_exclusive_double_buffer_swapchain_and_image_views as a function of the
\* state it is called in; the value is <<swapchain, image_views>>.
swapchain_and_image_views(m, capabilities, previous, images, fail) ==
    LET swapchain ==
            create_exclusive_double_buffer_swapchain(m, capabilities, previous, images, fail)
    IN  IF swapchain.threw
        THEN swapchain
        ELSE LET image_views ==
                     create_colour_aspect_single_mip_single_layer_swapchain_image_views(
                         swapchain.m, swapchain.value[1], fail)
             IN  IF image_views.threw
                 THEN Thrown(Unwind(image_views.m, swapchain.value), image_views.what)
                 ELSE Value(image_views.m, <<swapchain.value, image_views.value>>)

RECURSIVE CreateFramebuffers(_, _, _, _, _)

\* The transform | ranges::to<std::vector> of setup.cpp:232-245.
CreateFramebuffers(m, image_views, i, done, fail) ==
    IF i > Len(image_views)
    THEN Value(m, done)
    ELSE IF fail = NativeCall("vkCreateFramebuffer", i)
    THEN Thrown(Unwind(Failing(m, fail), done), "Failed to create framebuffer")
    ELSE LET out == Fresh(m, "framebuffer") IN
         CreateFramebuffers(
             Make(m, out, make_framebuffer_ptr(Device, "valid"),
                  {Device, RenderPass, image_views[i]},
                  [attachment |-> image_views[i]]),
             image_views, i + 1, Append(done, out), fail)

\* create_per_image_frame_buffers as a function of the state it is called in.
per_image_frame_buffers(m, image_views, fail) ==
    CreateFramebuffers(m, image_views, 1, <<>>, fail)

\* Mutant: one command buffer however many framebuffers there are.
VulkanCommandBufferCount_one(size) == 1

\* types::VulkanCommandBufferCount{frame_buffers.size()}
VulkanCommandBufferCount(size) == size

\* create_primary_command_buffers as a function of the state it is called in.
primary_command_buffers(m, count, fail) ==
    IF fail = NativeCall("vkAllocateCommandBuffers", 0)
    THEN Thrown(Failing(m, fail), "Failed to allocate command buffers")
    ELSE LET out == Fresh(m, "command_buffers") IN
         Value(Make(m, out, make_command_buffers_ptr(Device, CommandPool, "valid"),
                    {Device, CommandPool}, [count |-> count]),
               <<out>>)

\* create_debug_messenger(logger, instance) as a function of the state it is
\* called in: instance is the by-value parameter, destroyed when the function
\* is left.  plogger is a plain pointer: a throw before make_debug_messenger_ptr
\* is called runs no delete on it.
debug_messenger(m, instance, fail) ==
    LET plogger == Plogger(1)
        allocated == [m EXCEPT !.destroyCalls = (plogger :> 0) @@ @,
                               !.created = (plogger :> [by |-> "new"]) @@ @]
        load == NativeCall("vkGetInstanceProcAddr", 0)
        create == NativeCall("vkCreateDebugUtilsMessengerEXT", 0)
        out == Fresh(m, "messenger")
    IN  IF fail = load
        THEN Thrown(Unwind(Logged(allocated, load, "nullptr", <<>>, 0), <<instance>>),
                    "Failed to load vkCreateDebugUtilsMessengerEXT")
        ELSE IF fail = create
        THEN Thrown(Unwind(Failing(allocated, create), <<instance>>),
                    "Failed to create Vulkan debug messenger")
        ELSE Value(Unwind(Make(allocated, out,
                               make_debug_messenger_ptr(instance, plogger, "valid"),
                               {instance}, [plogger |-> plogger]),
                          <<instance>>),
                   <<out>>)

----------------------------------------------------------------------------
(* TEST_CASE("Create swapchain") (setup.cpp:1440-1480),                    *)
(* TEST_CASE("Populate render pass") (draw.cpp:233-302) and                *)
(* TEST_CASE("Create a Vulkan debug utils messenger") (setup.cpp:1298-1313), *)
(* step by step                                                            *)

ChainTests ==
    {"Create swapchain", "Populate render pass", "Create a Vulkan debug utils messenger"}

\* What the test has set up when the model takes over: the instance, and for
\* the tests of the chain the surface and the device.
ChainSetUp(test) ==
    IF test = "Create a Vulkan debug utils messenger"
    THEN <<New(Instance, make_instance_ptr("valid"), {})>>
    ELSE <<New(Instance, make_instance_ptr("valid"), {}),
           New(Surface, make_surface_ptr(Instance, "valid"), {Instance}),
           New(Device, make_device_ptr("valid"), {Instance})>>

\* The native calls one run can see fail; at most one does.
FailPoints ==
    {NoFail}
    \cup {NativeCall(fn, 0) : fn \in {"vkGetPhysicalDeviceSurfaceCapabilitiesKHR",
                                      "vkCreateSwapchainKHR", "vkCreateRenderPass",
                                      "vkCreateCommandPool", "vkAllocateCommandBuffers"}}
    \cup {NativeCall(fn, k) : fn \in {"vkGetPhysicalDeviceSurfacePresentModesKHR",
                                      "vkGetSwapchainImagesKHR"}, k \in 1..2}
    \cup {NativeCall(fn, k) : fn \in {"vkCreateImageView", "vkCreateFramebuffer"},
                              k \in 1..(MaxSurfaceImages + MaxDriverExtra)}

\* A variable of the test body and the wrappers it holds.
Local(name, objs) == [name |-> name, objs |-> objs]

\* The wrappers the variable called name holds, <<>> before its declaration.
LocalObjs(ls, name) ==
    IF \E i \in DOMAIN ls : ls[i].name = name
    THEN ls[CHOOSE i \in DOMAIN ls : ls[i].name = name].objs
    ELSE <<>>

SetLocal(ls, name, objs) ==
    [i \in DOMAIN ls |-> IF ls[i].name = name THEN Local(name, objs) ELSE ls[i]]

\* The places of the sequences in ss where o stands.
Occurrences(ss, o) ==
    UNION {{<<i, j>> : j \in {k \in DOMAIN ss[i] : ss[i][k] = o}} : i \in DOMAIN ss}

\* The number of handles the test body holds on each control block.
HeldBy(ls, ret, bs) ==
    [o \in DOMAIN bs |->
        Cardinality(Occurrences([i \in DOMAIN ls |-> ls[i].objs], o))
        + Cardinality(Occurrences(ret, o))]

\* The step leaves the machine in state m, the test body with the variables ls
\* and the temporary ret.
Becomes(m, ls, ret) ==
    /\ blocks' = m.blocks
    /\ destroyCalls' = m.destroyCalls
    /\ nativeDeps' = m.nativeDeps
    /\ created' = m.created
    /\ native_calls' = m.native_calls
    /\ locals' = ls
    /\ returned' = ret
    /\ held' = HeldBy(ls, ret, m.blocks)

\* The exception leaves the test body: nothing is declared or assigned.
Throws(r) ==
    /\ Becomes(r.m, locals, <<>>)
    /\ chain_failure' = r.what
    /\ chain_pc' = "exit"

\* The report the capabilities query writes, when it succeeds.
Queried(capabilities, fail) ==
    surface_capabilities' =
        IF fail = NativeCall("vkGetPhysicalDeviceSurfaceCapabilitiesKHR", 0)
        THEN surface_capabilities
        ELSE capabilities

\* types::VulkanDebugMessengerPtr messenger =
\*     create_debug_messenger(logger, std::move(instance));
\* the variable instance is left empty by the move; CHECK(messenger) follows.
CreateDebugMessenger ==
    /\ chain_pc = "messenger"
    /\ \E fail \in {NoFail, NativeCall("vkGetInstanceProcAddr", 0),
                     NativeCall("vkCreateDebugUtilsMessengerEXT", 0)} :
         LET r == debug_messenger(ChainState, Instance, fail) IN
         /\ Becomes(r.m,
                    IF r.threw
                    THEN SetLocal(locals, "instance", <<>>)
                    ELSE Append(SetLocal(locals, "instance", <<>>),
                                Local("messenger", r.value)),
                    <<>>)
         /\ chain_failure' = r.what
         /\ chain_pc' = "exit"
    /\ UNCHANGED <<chain_test, surface_capabilities, notChainVars>>

\* auto [swapchain, image_views] =
\*     create_exclusive_double_buffer_swapchain_and_image_views(...);
CreateChain ==
    /\ chain_pc = "create"
    /\ \E capabilities \in SurfaceCapabilityReports, fail \in FailPoints :
       \E images \in DriverImageCounts(capabilities, swapchain_image_count(capabilities)) :
         LET r == swapchain_and_image_views(ChainState, capabilities, <<>>, images, fail) IN
         /\ Queried(capabilities, fail)
         /\ IF r.threw
            THEN Throws(r)
            ELSE /\ Becomes(r.m,
                            locals \o <<Local("swapchain", r.value[1]),
                                        Local("image_views", r.value[2])>>,
                            <<>>)
                 /\ chain_pc' = IF chain_test = "Create swapchain"
                                THEN "recreate" ELSE "render_pass"
                 /\ UNCHANGED chain_failure
    /\ UNCHANGED <<chain_test, notChainVars>>

\* The right-hand side of
\* std::tie(swapchain, image_views) =
\*     create_exclusive_double_buffer_swapchain_and_image_views(..., swapchain);
RecreateChain ==
    /\ chain_pc = "recreate"
    /\ \E capabilities \in SurfaceCapabilityReports, fail \in FailPoints :
       \E images \in DriverImageCounts(capabilities, swapchain_image_count(capabilities)) :
         LET r == swapchain_and_image_views(ChainState, capabilities,
                                            LocalObjs(locals, "swapchain"), images, fail)
         IN
         /\ Queried(capabilities, fail)
         /\ IF r.threw
            THEN Throws(r)
            ELSE /\ Becomes(r.m, locals, r.value)
                 /\ chain_pc' = "assign"
                 /\ UNCHANGED chain_failure
    /\ UNCHANGED <<chain_test, notChainVars>>

\* The assignment through std::tie assigns the elements of the tuple one by
\* one from the first: swapchain is move-assigned, which drops the wrapper the
\* variable held and leaves the element of the temporary empty.
TieAssign ==
    /\ chain_pc = "assign"
    /\ Becomes(ReleaseAll(ChainState, LocalObjs(locals, "swapchain")),
               SetLocal(locals, "swapchain", returned[1]),
               <<<<>>, returned[2]>>)
    /\ chain_pc' = "assign_image_views"
    /\ UNCHANGED <<chain_test, surface_capabilities, chain_failure, notChainVars>>

\* The second element: image_views is move-assigned, which destroys the
\* elements the vector held.
TieAssignImageViews ==
    /\ chain_pc = "assign_image_views"
    /\ Becomes(ReleaseAll(ChainState, LocalObjs(locals, "image_views")),
               SetLocal(locals, "image_views", returned[2]),
               <<>>)
    /\ chain_pc' = "check"
    /\ UNCHANGED <<chain_test, surface_capabilities, chain_failure, notChainVars>>

\* CHECK(swapchain); CHECK(!image_views.empty()); of the reused chain: the
\* assertions read the variables and leave them alone.
CheckChain ==
    /\ chain_pc = "check"
    /\ chain_pc' = "exit"
    /\ UNCHANGED <<chain_test, surface_capabilities, native_calls, created, locals, returned,
                   chain_failure, blocks, held, destroyCalls, nativeDeps, notChainVars>>

\* A create function of one native call whose wrapper captures the device.
DeclareOne(name, o, blk, call, what, next) ==
    \E fail \in {NoFail, call} :
        IF fail = call
        THEN Throws(Thrown(Failing(ChainState, call), what))
        ELSE /\ Becomes(Make(ChainState, o, blk, {Device}, <<>>),
                        Append(locals, Local(name, <<o>>)), <<>>)
             /\ chain_pc' = next
             /\ UNCHANGED chain_failure

\* auto render_pass = create_single_presentation_subpass_render_pass(...);
CreateRenderPass ==
    /\ chain_pc = "render_pass"
    /\ DeclareOne("render_pass", RenderPass, make_render_pass_ptr(Device, "valid"),
                  NativeCall("vkCreateRenderPass", 0), "Failed to create render pass",
                  "frame_buffers")
    /\ UNCHANGED <<chain_test, surface_capabilities, notChainVars>>

\* auto frame_buffers = create_per_image_frame_buffers(..., image_views, ...);
CreateFrameBuffers ==
    /\ chain_pc = "frame_buffers"
    /\ \E fail \in FailPoints :
         LET r == per_image_frame_buffers(ChainState, LocalObjs(locals, "image_views"), fail)
         IN  IF r.threw
             THEN Throws(r)
             ELSE /\ Becomes(r.m, Append(locals, Local("frame_buffers", r.value)), <<>>)
                  /\ chain_pc' = "command_pool"
                  /\ UNCHANGED chain_failure
    /\ UNCHANGED <<chain_test, surface_capabilities, notChainVars>>

\* auto command_pool = create_command_pool(...);
CreateCommandPool ==
    /\ chain_pc = "command_pool"
    /\ DeclareOne("command_pool", CommandPool, make_command_pool_ptr(Device, "valid"),
                  NativeCall("vkCreateCommandPool", 0), "Failed to create command pool",
                  "command_buffers")
    /\ UNCHANGED <<chain_test, surface_capabilities, notChainVars>>

\* auto command_buffers = create_primary_command_buffers(
\*     device, command_pool, VulkanCommandBufferCount{frame_buffers.size()});
AllocateCommandBuffers ==
    /\ chain_pc = "command_buffers"
    /\ \E fail \in FailPoints :
         LET r == primary_command_buffers(
                      ChainState,
                      VulkanCommandBufferCount(Len(LocalObjs(locals, "frame_buffers"))),
                      fail)
         IN  IF r.threw
             THEN Throws(r)
             ELSE /\ Becomes(r.m, Append(locals, Local("command_buffers", r.value)), <<>>)
                  /\ chain_pc' = "reallocate"
                  /\ UNCHANGED chain_failure
    /\ UNCHANGED <<chain_test, surface_capabilities, notChainVars>>

\* The right-hand side of command_buffers = create_primary_command_buffers(...).
ReallocateCommandBuffers ==
    /\ chain_pc = "reallocate"
    /\ \E fail \in FailPoints :
         LET r == primary_command_buffers(
                      ChainState,
                      VulkanCommandBufferCount(Len(LocalObjs(locals, "frame_buffers"))),
                      fail)
         IN  IF r.threw
             THEN Throws(r)
             ELSE /\ Becomes(r.m, locals, <<r.value>>)
                  /\ chain_pc' = "reassign"
                  /\ UNCHANGED chain_failure
    /\ UNCHANGED <<chain_test, surface_capabilities, notChainVars>>

\* The move assignment to command_buffers: the batch it held is dropped.
AssignCommandBuffers ==
    /\ chain_pc = "reassign"
    /\ Becomes(ReleaseAll(ChainState, LocalObjs(locals, "command_buffers")),
               SetLocal(locals, "command_buffers", returned[1]), <<>>)
    /\ chain_pc' = "record"
    /\ UNCHANGED <<chain_test, surface_capabilities, chain_failure, notChainVars>>

\* populate_cmd_render_pass(command_buffers->front(), ..., frame_buffers.front(), ...)
RecordFrame ==
    /\ chain_pc = "record"
    /\ chain_pc' = "exit"
    /\ UNCHANGED <<chain_test, surface_capabilities, native_calls, created, locals, returned,
                   chain_failure, blocks, held, destroyCalls, nativeDeps, notChainVars>>

\* The variables that can be destroyed next when the test body is left: the
\* last one declared; the two members of the tuple behind the structured
\* binding in either order.
NextDestroyed ==
    {Len(locals)} \cup
    {i \in {Len(locals) - 1} :
        /\ i >= 1
        /\ locals[i].name = "swapchain"
        /\ locals[i + 1].name = "image_views"}

\* The end of the test body, regular or by an exception: one variable is
\* destroyed.
ScopeExit ==
    /\ chain_pc = "exit"
    /\ locals # <<>>
    /\ \E i \in NextDestroyed :
         Becomes(ReleaseAll(ChainState, locals[i].objs),
                 [k \in 1..(Len(locals) - 1) |-> IF k < i THEN locals[k] ELSE locals[k + 1]],
                 <<>>)
    /\ UNCHANGED <<chain_test, chain_pc, surface_capabilities, chain_failure, notChainVars>>

\* The tests begin with what they have set up.
InitChain ==
    /\ chain_test \in ChainTests
    /\ chain_pc = IF chain_test = "Create a Vulkan debug utils messenger"
                  THEN "messenger" ELSE "create"
    /\ surface_capabilities = <<>>
    /\ native_calls = <<>>
    /\ created = <<>>
    /\ locals = [i \in DOMAIN ChainSetUp(chain_test) |->
                    Local(KindOf(ChainSetUp(chain_test)[i].id),
                          <<ChainSetUp(chain_test)[i].id>>)]
    /\ returned = <<>>
    /\ chain_failure = ""
    /\ blocks = AddBlocks(<<>>, ChainSetUp(chain_test))
    /\ held = [o \in DOMAIN blocks |-> 1]
    /\ destroyCalls = [o \in DOMAIN blocks |-> 0]
    /\ nativeDeps = [o \in DOMAIN blocks |-> IF o = Instance THEN {} ELSE {Instance}]
    /\ program = <<>>
    /\ setup_pc = 0
    /\ emptied = 0
    /\ vectors = {}
    /\ NoFrame
    /\ NoSelect
    /\ NoFilter
    /\ NoDevice
    /\ NoFormats
    /\ NoCallback
    /\ NoPresent

NextChain ==
    \/ CreateDebugMessenger
    \/ CreateChain
    \/ RecreateChain
    \/ TieAssign
    \/ TieAssignImageViews
    \/ CheckChain
    \/ CreateRenderPass
    \/ CreateFrameBuffers
    \/ CreateCommandPool
    \/ AllocateCommandBuffers
    \/ ReallocateCommandBuffers
    \/ AssignCommandBuffers
    \/ RecordFrame
    \/ ScopeExit

SpecChain == InitChain /\ [][NextChain]_vars

----------------------------------------------------------------------------
(* Claims about the presentable chain *)

LastCall == native_calls[Len(native_calls)]

\* The last step was a chain creation that got as far as vkCreateSwapchainKHR
\* and returned: LastCall was made for the report in surface_capabilities.
ChainJustCreated ==
    /\ native_calls # <<>>
    /\ chain_pc \in {"recreate", "render_pass", "assign"}

\* C13 as stated: for every report with 1 <= minImageCount and maxImageCount
\* either 0 or at least minImageCount, the requested image count n satisfies
\* 2 <= n, and n <= maxImageCount unless maxImageCount is 0.
C13_AtLeastTwoWithinMax ==
    ChainJustCreated =>
        /\ 2 <= LastCall.minImageCount
        /\ (surface_capabilities.maxImageCount = 0
            \/ LastCall.minImageCount <= surface_capabilities.maxImageCount)

\* C13, amended: for every such report the requested image count n satisfies
\* minImageCount <= n, n <= maxImageCount unless maxImageCount is 0, and
\* 2 <= n unless maxImageCount is 1, where n is 1.
C13_ClosestToTwoWithinLimits ==
    ChainJustCreated =>
        /\ surface_capabilities.minImageCount <= LastCall.minImageCount
        /\ (surface_capabilities.maxImageCount = 0
            \/ LastCall.minImageCount <= surface_capabilities.maxImageCount)
        /\ IF surface_capabilities.maxImageCount = 1
           THEN LastCall.minImageCount = 1
           ELSE 2 <= LastCall.minImageCount

\* A chain was created on a surface that allows one image only, with one image
\* requested.
C13_Witness ==
    /\ ChainJustCreated
    /\ surface_capabilities.minImageCount = 1
    /\ surface_capabilities.maxImageCount = 1
    /\ LastCall.minImageCount = 1
    /\ LastCall.result = "VK_SUCCESS"

\* The variables of the test body.
CurrentSwapchain == LocalObjs(locals, "swapchain")[1]
CurrentImageViews == LocalObjs(locals, "image_views")
CurrentFrameBuffers == LocalObjs(locals, "frame_buffers")
CurrentCommandBuffers == LocalObjs(locals, "command_buffers")[1]

C15_PreviousDestroyedAfterCreate ==
    [][/\ chain_pc = "recreate"
          => /\ destroyCalls'[CurrentSwapchain] = 0
             /\ \A i \in DOMAIN native_calls' \ DOMAIN native_calls :
                  native_calls'[i].fn = "vkCreateSwapchainKHR"
                      => native_calls'[i].oldSwapchain = CurrentSwapchain
       /\ chain_pc = "assign"
          => /\ LastCall.result = "VK_SUCCESS"
             /\ LastCall.oldSwapchain = CurrentSwapchain
             /\ created[returned[1][1]].oldSwapchain = CurrentSwapchain
             /\ destroyCalls[CurrentSwapchain] = 0
             /\ destroyCalls'[CurrentSwapchain] = 1
             /\ destroyCalls'[returned[1][1]] = 0]_vars

\* The recreated chain is in place: it was created from the previous one,
\* which has been destroyed by one call.
C15_Witness ==
    /\ chain_pc = "check"
    /\ created[CurrentSwapchain].oldSwapchain # <<>>
    /\ destroyCalls[created[CurrentSwapchain].oldSwapchain] = 1
    /\ destroyCalls[CurrentSwapchain] = 0

CommandBufferBatches == {o \in DOMAIN destroyCalls : KindOf(o) = "command_buffers"}

\* C16: the assignment of a new batch to command_buffers frees the batch the
\* variable held by one call and frees nothing of the new batch; whenever a
\* batch is freed it is by one call, it had not been freed before, and
\* neither the pool nor the device has been destroyed; a batch no handle
\* refers to has been freed.
C16_BatchFreedOnceOnOverwrite ==
    [][/\ chain_pc = "reassign"
          => /\ destroyCalls[CurrentCommandBuffers] = 0
             /\ destroyCalls'[CurrentCommandBuffers] = 1
             /\ destroyCalls'[returned[1][1]] = 0
             /\ blocks[returned[1][1]].caps = blocks[CurrentCommandBuffers].caps
       /\ \A o \in CommandBufferBatches :
            /\ destroyCalls'[o] # destroyCalls[o]
                 => /\ destroyCalls[o] = 0
                    /\ destroyCalls'[o] = 1
                    /\ held[o] = 1
                    /\ held'[o] = 0
                    /\ destroyCalls[CommandPool] = 0
                    /\ destroyCalls[Device] = 0
            /\ held'[o] = 0 => destroyCalls'[o] = 1]_vars

\* Both batches have been freed, the second one at the end of the test body,
\* and the pool is still there.
C16_Witness ==
    /\ chain_pc = "exit"
    /\ chain_failure = ""
    /\ Cardinality(CommandBufferBatches) = 2
    /\ \A o \in CommandBufferBatches : destroyCalls[o] = 1
    /\ destroyCalls[CommandPool] = 0
    /\ destroyCalls[Device] = 0

\* The native calls logged by the step.
NewCalls == {native_calls'[i] : i \in DOMAIN native_calls' \ DOMAIN native_calls}

\* C17: when a native call fails in
\* create_exclusive_double_buffer_swapchain_and_image_views or in
\* create_per_image_frame_buffers, the call throws and hands no wrapper to the
\* caller, and by then every object the call created has been destroyed by
\* one native call; the objects that existed before are left alone.
C17_FailureUnwindsWhatWasCreated ==
    [][(chain_pc = "create" \/ chain_pc = "recreate" \/ chain_pc = "frame_buffers")
        => /\ (\E c \in NewCalls : c.result # "VK_SUCCESS") => chain_failure' # ""
           /\ chain_failure' # ""
                => /\ returned' = <<>>
                   /\ locals' = locals
                   /\ \A o \in DOMAIN destroyCalls :
                        destroyCalls'[o] = destroyCalls[o] /\ blocks'[o] = blocks[o]
                   /\ \A o \in DOMAIN destroyCalls' \ DOMAIN destroyCalls :
                        (destroyCalls'[o] = 1 /\ blocks'[o].rc = 0)]_vars

\* The third image view of a chain could not be created: the exception has
\* reached the test body, and the swapchain and the two views made before are
\* destroyed, each by one call.
C17_Witness ==
    /\ chain_failure = "Failed to create image view"
    /\ LastCall.fn = "vkCreateImageView"
    /\ LastCall.k = 3
    /\ Len(locals) = 3
    /\ \E sc \in DOMAIN created :
        /\ KindOf(sc) = "swapchain"
        /\ destroyCalls[sc] = 1
        /\ Cardinality({v \in DOMAIN created :
                           /\ KindOf(v) = "image_view"
                           /\ created[v].swapchain = sc
                           /\ destroyCalls[v] = 1}) = 2

SurfaceRejections ==
    {"Surface size is undefined", "VK_COMPOSITE_ALPHA_OPAQUE_BIT_KHR unavailable",
     "Surface VK_IMAGE_USAGE_COLOR_ATTACHMENT_BIT unavailable"}

\* The step is a chain creation whose queries of the surface all succeeded:
\* surface_capabilities' is the report it got.
SurfaceQueried ==
    /\ chain_pc \in {"create", "recreate"}
    /\ \A c \in NewCalls :
         c.fn \notin {"vkGetPhysicalDeviceSurfaceCapabilitiesKHR",
                      "vkGetPhysicalDeviceSurfacePresentModesKHR"}

\* C18: when the surface reports an undefined extent, no opaque composite
\* alpha or no colour-attachment usage, the creation throws one of the three
\* errors without a vkCreateSwapchainKHR call; nothing is created or
\* destroyed, the previous chain included.
C18_UnusableSurfaceRejectedBeforeCreate ==
    [][/\ (/\ SurfaceQueried
           /\ \/ surface_capabilities'.currentExtentWidth = UINT32_MAX
              \/ "VK_COMPOSITE_ALPHA_OPAQUE_BIT_KHR"
                    \notin surface_capabilities'.supportedCompositeAlpha
              \/ "VK_IMAGE_USAGE_COLOR_ATTACHMENT_BIT"
                    \notin surface_capabilities'.supportedUsageFlags)
          => chain_failure' \in SurfaceRejections
       /\ (chain_failure = "" /\ chain_failure' \in SurfaceRejections)
          => /\ native_calls' = native_calls
             /\ created' = created
             /\ destroyCalls' = destroyCalls
             /\ blocks' = blocks
             /\ locals' = locals
             /\ returned' = <<>>]_vars

\* The recreation was rejected for an undefined extent: the previous chain is
\* still held and not destroyed, and the only create call is the initial one.
C18_Witness ==
    /\ chain_failure = "Surface size is undefined"
    /\ chain_test = "Create swapchain"
    /\ Len(locals) = 5
    /\ destroyCalls[CurrentSwapchain] = 0
    /\ Len(native_calls) = 1
    /\ LastCall.oldSwapchain = <<>>

----------------------------------------------------------------------------
(* The name filters: setup.cpp:706-767, 1062-1095, 1142-1177               *)

\* Largest number of names the driver enumerates.
MaxEnumerated == 2

\* The names of the model, in the order of operator< of std::string_view.
NameOrder == <<"VK_EXT_debug_utils", "VK_KHR_swapchain", "some_unsupported_extension">>

Names == Range(NameOrder)

FilterFunctions ==
    {"filter_available_device_extensions", "filter_available_layers",
     "filter_available_instance_extensions"}

\* A std::string_view or a char const *: the characters it refers to and the
\* object that stores them.
NameView(name, storage) == [name |-> name, storage |-> storage]

\* A std::set of name views built from names: in order, each name once.
SetOfViews(names, storage) ==
    [i \in DOMAIN SelectSeq(NameOrder, LAMBDA n : n \in names) |->
        NameView(SelectSeq(NameOrder, LAMBDA n : n \in names)[i], storage)]

\* ranges::views::set_intersection of two sorted ranges: the elements of the
\* first range that have an equal in the second.
set_intersection(first, second) ==
    SelectSeq(first, LAMBDA v : \E w \in Range(second) : w.name = v.name)

\* The body of filter_available_device_extensions after the test for an empty
\* request: the available names refer to the characters of the elements of the
\* local vector available_device_extensions, and are the first range.
device_extensions_to_enable(desired, available) ==
    IF desired = {}
    THEN <<>>
    ELSE set_intersection(SetOfViews(Range(available), "available_device_extensions"),
                          SetOfViews(desired, "desired_device_extension_names"))

\* The desired names are the first range; the available ones refer to the
\* characters of the elements of the local vector available_layer_descs.
filter_available_layers(desired, available) ==
    set_intersection(SetOfViews(desired, "desired_layer_names"),
                     SetOfViews(Range(available), "available_layer_descs"))

filter_available_instance_extensions(desired, available) ==
    set_intersection(SetOfViews(desired, "desired_extension_names"),
                     SetOfViews(Range(available), "available_extensions"))

\* The local vectors of the three functions, destroyed when they return.
FunctionLocals ==
    {"available_device_extensions", "available_layer_descs", "available_extensions"}

\* What reading the characters of a view can give: the name, or anything at
\* all when the object that stored them has been destroyed.
ReadsOf(view) ==
    IF view.storage \in FunctionLocals
    THEN Names \cup {"<indeterminate>"}
    ELSE {view.name}

\* The test of filter_available_device_extensions that returns before any
\* native call.
ReturnsEarly == filter_fn = "filter_available_device_extensions" /\ desired_names = {}

EnumerateFailure ==
    CASE filter_fn = "filter_available_device_extensions" -> "Failed to get device extension count"
      [] filter_fn = "filter_available_layers" -> "Failed to enumerate instance layers"
      [] OTHER -> "Failed to enumerate instance extensions"

\* The call of the filter function.
CallFilter ==
    /\ filter_pc = "call"
    /\ IF ~ReturnsEarly /\ VK_CHECK(enumerate_result)
       THEN /\ filter_failure' = EnumerateFailure
            /\ filter_pc' = "thrown"
            /\ UNCHANGED filter_result
       ELSE /\ filter_result' =
                 CASE filter_fn = "filter_available_device_extensions" ->
                          device_extensions_to_enable(desired_names, enumerated)
                   [] filter_fn = "filter_available_layers" ->
                          filter_available_layers(desired_names, enumerated)
                   [] OTHER ->
                          filter_available_instance_extensions(desired_names, enumerated)
            /\ filter_pc' = "returned"
            /\ UNCHANGED filter_failure
    /\ UNCHANGED <<filter_fn, desired_names, enumerated, enumerate_result, names_read,
                   notFilterVars>>

\* The caller reads the names of the vector it was given.
ReadNames ==
    /\ filter_pc = "returned"
    /\ names_read' \in {r \in [DOMAIN filter_result -> Names \cup {"<indeterminate>"}] :
                          \A i \in DOMAIN filter_result : r[i] \in ReadsOf(filter_result[i])}
    /\ filter_pc' = "read"
    /\ UNCHANGED <<filter_fn, desired_names, enumerated, enumerate_result, filter_result,
                   filter_failure, notFilterVars>>

InitFilter ==
    /\ filter_fn \in FilterFunctions
    /\ desired_names \in SUBSET Names
    /\ enumerated \in SeqsUpTo(Names, MaxEnumerated)
    /\ enumerate_result \in {"VK_SUCCESS", "VK_ERROR_OUT_OF_HOST_MEMORY"}
    /\ filter_pc = "call"
    /\ filter_result = <<>>
    /\ names_read = <<>>
    /\ filter_failure = ""
    /\ NoOwn
    /\ NoFrame
    /\ NoSelect
    /\ NoChain
    /\ NoDevice
    /\ NoFormats
    /\ NoCallback
    /\ NoPresent

NextFilter ==
    \/ CallFilter
    \/ ReadNames

SpecFilter == InitFilter /\ [][NextFilter]_vars

\* C19: each of the three filters gives the caller exactly the names that are
\* desired and available, each once, and throws only when the enumeration
\* of the available names failed.
C19_ExactlyDesiredAndAvailable ==
    /\ filter_pc = "read"
        => /\ Range(names_read) = desired_names \cap Range(enumerated)
           /\ Len(names_read) = Cardinality(desired_names \cap Range(enumerated))
    /\ filter_pc = "thrown" => enumerate_result # "VK_SUCCESS"
    /\ (enumerate_result = "VK_SUCCESS" /\ filter_pc # "call") => filter_failure = ""

\* C19 for the two filters of instance-level names, whose result refers to
\* the characters of the caller's desired names.
C19_InstanceLevelFilters ==
    filter_fn # "filter_available_device_extensions" => C19_ExactlyDesiredAndAvailable

----------------------------------------------------------------------------
(* The logical device and its queues: setup.cpp:493-581                    *)

\* Largest queue family index, largest queue count of one request element and
\* largest number of elements of a request.
MaxQueueFamilyIdx == 2
MaxQueueCount == 2
MaxRequests == 2

QueueRequests == SeqsUpTo((0..MaxQueueFamilyIdx) \X (1..MaxQueueCount), MaxRequests)

\* The VkQueue that vkGetDeviceQueue(device, queue_family_idx, queue_idx, &queue) writes.
vkGetDeviceQueue(queue_family_idx, queue_idx) ==
    [family |-> queue_family_idx, index |-> queue_idx]

RECURSIVE MapOfVulkanQueueFamilyIdxToVectorOfQueues(_, _)

\* The loop of setup.cpp:567-578 over the elements of the request that are
\* left: queues[queue_family_idx] makes the entry when there is none, and the
\* queues of the element are pushed to the back of it.
MapOfVulkanQueueFamilyIdxToVectorOfQueues(map, request) ==
    IF request = <<>>
    THEN map
    ELSE LET queue_family_idx == Head(request)[1]
             queue_count == Head(request)[2]
             queues_for_family ==
                 IF queue_family_idx \in DOMAIN map THEN map[queue_family_idx] ELSE <<>>
             pushed ==
                 queues_for_family \o
                 [i \in 1..queue_count |-> vkGetDeviceQueue(queue_family_idx, i - 1)]
         IN  MapOfVulkanQueueFamilyIdxToVectorOfQueues(
                 (queue_family_idx :> pushed) @@ map, Tail(request))

\* create_device_and_queues(physical_device, queue_family_and_counts, ...).
\* std::ranges::max of an empty request has no defined behaviour: the call
\* may end there or go on.
CreateDeviceAndQueues ==
    /\ device_pc = "call"
    /\ \/ /\ queue_family_and_counts = <<>>
          /\ device_pc' = "undefined"
          /\ UNCHANGED <<queues, device_failure>>
       \/ \E result \in {"VK_SUCCESS", "VK_ERROR_INITIALIZATION_FAILED"} :
            IF VK_CHECK(result)
            THEN /\ device_failure' = "Failed to create logical device"
                 /\ device_pc' = "thrown"
                 /\ UNCHANGED queues
            ELSE /\ queues' =
                      MapOfVulkanQueueFamilyIdxToVectorOfQueues(<<>>, queue_family_and_counts)
                 /\ device_pc' = "returned"
                 /\ UNCHANGED device_failure
    /\ UNCHANGED <<queue_family_and_counts, notDeviceVars>>

InitDevice ==
    /\ queue_family_and_counts \in QueueRequests
    /\ device_pc = "call"
    /\ queues = <<>>
    /\ device_failure = ""
    /\ NoOwn
    /\ NoFrame
    /\ NoSelect
    /\ NoChain
    /\ NoFilter
    /\ NoFormats
    /\ NoCallback
    /\ NoPresent

NextDevice == CreateDeviceAndQueues

SpecDevice == InitDevice /\ [][NextDevice]_vars

\* C20: the map returned has one entry for each family of the request and no
\* other; the entry of the family of a request element holds as many queues as
\* the element asks for, and the queue at position i is the one resolved for
\* (family, i).
C20_OneEntryPerFamilyWithRequestedQueues ==
    device_pc = "returned"
        => /\ DOMAIN queues =
                {queue_family_and_counts[k][1] : k \in DOMAIN queue_family_and_counts}
           /\ \A k \in DOMAIN queue_family_and_counts :
                LET queue_family_idx == queue_family_and_counts[k][1]
                    queue_count == queue_family_and_counts[k][2]
                IN  /\ Len(queues[queue_family_idx]) = queue_count
                    /\ \A i \in 0..(queue_count - 1) :
                         queues[queue_family_idx][i + 1] =
                             vkGetDeviceQueue(queue_family_idx, i)

\* C20 for the requests that name no family twice.
C20_DistinctFamilies ==
    (\A j, k \in DOMAIN queue_family_and_counts :
        queue_family_and_counts[j][1] = queue_family_and_counts[k][1] => j = k)
    => C20_OneEntryPerFamilyWithRequestedQueues

----------------------------------------------------------------------------
(* Claims about the parents a release action captures *)

\* The parents the release action of a wrapper of each kind is to keep.
CapturedParents(kind) ==
    CASE kind \in {"surface", "messenger"} -> {Instance}
      [] kind \in {"swapchain", "image_view", "render_pass", "framebuffer", "command_pool",
                   "semaphore", "buffer", "device_memory"} -> {Device}
      [] kind = "command_buffers" -> {Device, CommandPool}
      [] OTHER -> {}

\* C22: while an object made from a non-null handle has had no destroy call,
\* none of the parents its release action captures has been destroyed: the
\* instance for a surface or messenger, the device for the objects created
\* from it, the pool and the device for a command buffer batch, whatever the
\* order in which the caller drops its handles.
C22_CapturedParentOutlivesChild ==
    \A d \in DOMAIN nativeDeps :
        destroyCalls[d] = 0
            => \A p \in CapturedParents(KindOf(d)) : destroyCalls[p] = 0

\* The caller has dropped its device handle and still holds the buffer: the
\* device is kept by the buffer's release action.
C22_Witness ==
    /\ Buffer \in DOMAIN held
    /\ held[Buffer] > 0
    /\ held[Device] = 0
    /\ destroyCalls[Device] = 0
    /\ blocks[Device].rc > 0

\* C23: the surface is never destroyed while a swapchain created on it still
\* exists, whatever the order in which the caller drops its handles.
C23_SurfaceOutlivesSwapchain ==
    \A d \in DOMAIN nativeDeps :
        (KindOf(d) = "swapchain" /\ destroyCalls[d] = 0)
            => \A p \in nativeDeps[d] : KindOf(p) = "surface" => destroyCalls[p] = 0

\* C24: neither the render pass nor the image view a framebuffer binds is
\* destroyed while the framebuffer still exists, whatever the order in which
\* the caller drops its handles.
C24_RenderPassAndViewOutliveFramebuffer ==
    \A d \in DOMAIN nativeDeps :
        (KindOf(d) = "framebuffer" /\ destroyCalls[d] = 0)
            => \A p \in nativeDeps[d] :
                 KindOf(p) \in {"render_pass", "image_view"} => destroyCalls[p] = 0

\* C25: no image view exists after the chain whose image it views has been
\* destroyed: when the pair (swapchain, image_views) is replaced, and at any
\* other time, the views of a chain are destroyed before the chain.
C25_ViewsDestroyedBeforeTheirChain ==
    \A v \in DOMAIN created :
        (KindOf(v) = "image_view" /\ destroyCalls[v] = 0)
            => destroyCalls[created[v].swapchain] = 0

\* C27: every logger record create_debug_messenger allocates is freed exactly
\* once on every path: after a successful creation by the release action of
\* the messenger wrapper, after the messenger is destroyed and before the
\* instance is; after a failed load of the create function or a failed native
\* create call before the failure reaches the caller.
C27_LoggerRecordFreedOnce ==
    \A p \in {o \in DOMAIN created : KindOf(o) = "plogger"} :
        /\ destroyCalls[p] <= 1
        /\ chain_failure # "" => destroyCalls[p] = 1
        /\ \A w \in {o \in DOMAIN created : KindOf(o) = "messenger"} :
             /\ destroyCalls[p] = 1 => destroyCalls[w] = 1
             /\ destroyCalls[Instance] = 1 => destroyCalls[p] = 1
             /\ (chain_pc = "exit" /\ locals = <<>>) => destroyCalls[p] = 1

----------------------------------------------------------------------------
(* The surface formats: setup.cpp:583-636                                  *)

\* Largest number of desired formats and of formats the driver reports.
MaxDesiredFormats == 2
MaxAvailableFormats == 2

VkFormats ==
    {"VK_FORMAT_R8G8B8A8_UNORM", "VK_FORMAT_B8G8R8A8_UNORM", "VK_FORMAT_R5G6B5_UNORM_PACK16"}

VkColorSpaces ==
    {"VK_COLOR_SPACE_SRGB_NONLINEAR_KHR", "VK_COLOR_SPACE_DISPLAY_P3_NONLINEAR_EXT"}

\* The VkSurfaceFormatKHR values the driver can report.
VkSurfaceFormats == [format : VkFormats, colorSpace : VkColorSpaces]

\* available_surface_formats | std::views::filter(contains(desired_formats,
\* available_surface_format.format)) | ranges::to<std::vector>()
filter_available_surface_formats(desired, available) ==
    SelectSeq(available, LAMBDA a : \E i \in DOMAIN desired : desired[i] = a.format)

\* The call of filter_available_surface_formats: the count query, the data
\* query, the filter.
CallFilterAvailableSurfaceFormats ==
    /\ formats_pc = "call"
    /\ IF VK_CHECK(formats_results[1])
       THEN /\ formats_failure' = "Failed to get surface format count"
            /\ formats_pc' = "thrown"
            /\ UNCHANGED filtered_surface_formats
       ELSE IF VK_CHECK(formats_results[2])
       THEN /\ formats_failure' = "Failed to get surface formats"
            /\ formats_pc' = "thrown"
            /\ UNCHANGED filtered_surface_formats
       ELSE /\ filtered_surface_formats' =
                 filter_available_surface_formats(desired_formats, available_surface_formats)
            /\ formats_pc' = "returned"
            /\ UNCHANGED formats_failure
    /\ UNCHANGED <<desired_formats, available_surface_formats, formats_results, notFormatsVars>>

\* The driver reports each surface format once; the caller's span is any
\* sequence of formats.
InitFormats ==
    /\ desired_formats \in SeqsUpTo(VkFormats, MaxDesiredFormats)
    /\ available_surface_formats \in
           {a \in SeqsUpTo(VkSurfaceFormats, MaxAvailableFormats) :
               \A i, j \in DOMAIN a : i # j => a[i] # a[j]}
    /\ formats_results \in
           {<<"VK_SUCCESS", "VK_SUCCESS">>, <<"VK_ERROR_SURFACE_LOST_KHR", "VK_SUCCESS">>,
            <<"VK_SUCCESS", "VK_ERROR_SURFACE_LOST_KHR">>}
    /\ formats_pc = "call"
    /\ filtered_surface_formats = <<>>
    /\ formats_failure = ""
    /\ NoOwn
    /\ NoFrame
    /\ NoSelect
    /\ NoChain
    /\ NoFilter
    /\ NoDevice
    /\ NoCallback
    /\ NoPresent

NextFormats == CallFilterAvailableSurfaceFormats

SpecFormats == InitFormats /\ [][NextFormats]_vars

\* The place of a format in the span of desired formats: its first one.
PriorityOf(format) ==
    CHOOSE i \in DOMAIN desired_formats :
        /\ desired_formats[i] = format
        /\ \A j \in 1..(i - 1) : desired_formats[j] # format

\* C28: filter_available_surface_formats returns all and only the available
\* surface formats whose format is desired, each once, ordered by the place of
\* their format in desired_formats (the priority order of the caller).
C28_DesiredOrderPreserved ==
    formats_pc = "returned" =>
        /\ Range(filtered_surface_formats) =
               {a \in Range(available_surface_formats) : a.format \in Range(desired_formats)}
        /\ Len(filtered_surface_formats) = Cardinality(Range(filtered_surface_formats))
        /\ \A i, j \in DOMAIN filtered_surface_formats :
               i < j => PriorityOf(filtered_surface_formats[i].format)
                            <= PriorityOf(filtered_surface_formats[j].format)

----------------------------------------------------------------------------
(* The debug messenger callback: setup.cpp:913-1004                        *)

\* spdlog::level::level_enum, lowest first.
SpdlogLevels == <<"trace", "debug", "info", "warn", "err", "critical", "off">>

LevelNumber(level) == CHOOSE i \in DOMAIN SpdlogLevels : SpdlogLevels[i] = level

\* spdlog::logger::should_log(msg_level) of a logger set to level.
should_log(level, msg_level) == LevelNumber(msg_level) >= LevelNumber(level)

\* VkDebugUtilsMessageSeverityFlagBitsEXT
VK_DEBUG_UTILS_MESSAGE_SEVERITY_INFO_BIT_EXT == 16
VK_DEBUG_UTILS_MESSAGE_SEVERITY_WARNING_BIT_EXT == 256
VK_DEBUG_UTILS_MESSAGE_SEVERITY_ERROR_BIT_EXT == 4096

\* .messageSeverity and .messageType of the create info (setup.cpp:884-893):
\* what the driver calls the callback with.
MessageSeverities ==
    {VK_DEBUG_UTILS_MESSAGE_SEVERITY_INFO_BIT_EXT,
     VK_DEBUG_UTILS_MESSAGE_SEVERITY_WARNING_BIT_EXT,
     VK_DEBUG_UTILS_MESSAGE_SEVERITY_ERROR_BIT_EXT}

MessageTypes == SUBSET {"GENERAL", "VALIDATION"} \ {{}}

\* log->error(msg), log->warn(msg), log->info(msg): the logger emits the
\* message when it logs that level.
LogAt(level, msg_level, types) ==
    IF should_log(level, msg_level)
    THEN <<[level |-> msg_level, types |-> types]>>
    ELSE <<>>

\* vulkan_debug_messenger_callback: what it returns and what the logger
\* emits.
vulkan_debug_messenger_callback(level, severity, types) ==
    IF ~should_log(level, "info")
    THEN [return |-> 0, logged |-> <<>>]
    ELSE IF severity >= VK_DEBUG_UTILS_MESSAGE_SEVERITY_WARNING_BIT_EXT
            /\ ~should_log(level, "warn")
    THEN [return |-> 0, logged |-> <<>>]
    ELSE IF severity >= VK_DEBUG_UTILS_MESSAGE_SEVERITY_ERROR_BIT_EXT
            /\ ~should_log(level, "err")
    THEN [return |-> 0, logged |-> <<>>]
    ELSE [return |-> 1,
          logged |->
              IF severity >= VK_DEBUG_UTILS_MESSAGE_SEVERITY_ERROR_BIT_EXT
              THEN LogAt(level, "err", types)
              ELSE IF severity >= VK_DEBUG_UTILS_MESSAGE_SEVERITY_WARNING_BIT_EXT
              THEN LogAt(level, "warn", types)
              ELSE LogAt(level, "info", types)]

\* The driver calls the callback with a message.
CallCallback ==
    /\ callback_pc = "call"
    /\ LET r == vulkan_debug_messenger_callback(logger_level, message_severity, message_types)
       IN  /\ logged' = r.logged
           /\ callback_return' = r.return
    /\ callback_pc' = "returned"
    /\ UNCHANGED <<logger_level, message_severity, message_types, notCallbackVars>>

InitCallback ==
    /\ logger_level \in Range(SpdlogLevels)
    /\ message_severity \in MessageSeverities
    /\ message_types \in MessageTypes
    /\ callback_pc = "call"
    /\ logged = <<>>
    /\ callback_return = 0
    /\ NoOwn
    /\ NoFrame
    /\ NoSelect
    /\ NoChain
    /\ NoFilter
    /\ NoDevice
    /\ NoFormats
    /\ NoPresent

NextCallback == CallCallback

SpecCallback == InitCallback /\ [][NextCallback]_vars

\* The logger level a severity corresponds to.
LevelOfSeverity(severity) ==
    IF severity = VK_DEBUG_UTILS_MESSAGE_SEVERITY_ERROR_BIT_EXT THEN "err"
    ELSE IF severity = VK_DEBUG_UTILS_MESSAGE_SEVERITY_WARNING_BIT_EXT THEN "warn"
    ELSE "info"

\* C29: for every logger level and every severity (info, warning, error) the
\* callback emits the message, at the logger level that corresponds to the
\* severity, if and only if the logger emits that level: an error message is
\* emitted by a logger that emits errors also when it suppresses info.
C29_EmittedIffLevelEnabled ==
    callback_pc = "returned" =>
        IF should_log(logger_level, LevelOfSeverity(message_severity))
        THEN logged = <<[level |-> LevelOfSeverity(message_severity), types |-> message_types]>>
        ELSE logged = <<>>

----------------------------------------------------------------------------
(* The present mode: setup.cpp:397-427, 466-488                            *)

\* Largest number of present modes the driver reports.
MaxPresentModes == 4

VkPresentModes ==
    {"VK_PRESENT_MODE_IMMEDIATE_KHR", "VK_PRESENT_MODE_MAILBOX_KHR",
     "VK_PRESENT_MODE_FIFO_KHR", "VK_PRESENT_MODE_FIFO_RELAXED_KHR"}

\* Mutant: the first mode the driver reports is taken.
present_mode_first_reported(modes) ==
    IF modes # <<>> THEN modes[1] ELSE "VK_PRESENT_MODE_FIFO_KHR"

\* VkPresentModeKHR const present_mode = [&] { ... }();
present_mode(modes) ==
    IF \E i \in DOMAIN modes : modes[i] = "VK_PRESENT_MODE_MAILBOX_KHR"
    THEN "VK_PRESENT_MODE_MAILBOX_KHR"
    ELSE "VK_PRESENT_MODE_FIFO_KHR"

\* The choice of the present mode in create_exclusive_double_buffer_swapchain
\* and .presentMode = present_mode of the create info.
ChoosePresentMode ==
    /\ present_pc = "choose"
    /\ presentMode' = present_mode(present_modes)
    /\ present_pc' = "chosen"
    /\ UNCHANGED <<present_modes, notPresentVars>>

\* The driver reports each present mode once, in any order.
InitPresent ==
    /\ present_modes \in
           {m \in SeqsUpTo(VkPresentModes, MaxPresentModes) :
               \A i, j \in DOMAIN m : i # j => m[i] # m[j]}
    /\ present_pc = "choose"
    /\ presentMode = "none"
    /\ NoOwn
    /\ NoFrame
    /\ NoSelect
    /\ NoChain
    /\ NoFilter
    /\ NoDevice
    /\ NoFormats
    /\ NoCallback

NextPresent == ChoosePresentMode

SpecPresent == InitPresent /\ [][NextPresent]_vars

\* C30: the present mode requested for a new chain is mailbox if mailbox is
\* among the modes the driver reports and FIFO otherwise; no other mode is
\* requested.
C30_MailboxElseFifo ==
    present_pc = "chosen" =>
        presentMode = IF "VK_PRESENT_MODE_MAILBOX_KHR" \in Range(present_modes)
                      THEN "VK_PRESENT_MODE_MAILBOX_KHR"
                      ELSE "VK_PRESENT_MODE_FIFO_KHR"

\* Mailbox was chosen although the driver reported immediate and FIFO first.
C30_Witness ==
    /\ present_pc = "chosen"
    /\ present_modes = <<"VK_PRESENT_MODE_IMMEDIATE_KHR", "VK_PRESENT_MODE_FIFO_KHR",
                         "VK_PRESENT_MODE_MAILBOX_KHR">>
    /\ presentMode = "VK_PRESENT_MODE_MAILBOX_KHR"

====
